---- MODULE Spec2Model ----
(***************************************************************************)
(* Model of tools/validate_and_fix_meals.js: the MealValidator class       *)
(* (field coercers, identifier registry, option flattener, record          *)
(* normalizer) and the validateAndFix traversal that reconciles a raw      *)
(* meal catalog into the canonical region -> diet -> meal-type catalog.    *)
(*                                                                         *)
(* JavaScript values are tagged records (see the "JavaScript values"       *)
(* section); JavaScript strings are TLA+ strings of ASCII characters that  *)
(* spell the string code unit by code unit (see the "Strings" section), so *)
(* that trimming, lower-casing, substring search, splitting and number     *)
(* parsing are computed, not assumed.                                      *)
(***************************************************************************)
EXTENDS Integers, Sequences, FiniteSets, TLC

(***************************************************************************)
(* Bounds of the model (not program constants).                            *)
(***************************************************************************)
\* Number of entries (records or stray scalars) one input document holds.
MaxMeals == 2

(***************************************************************************)
(* Strings                                                                 *)
(*                                                                         *)
(* A JavaScript string is a sequence of UTF-16 code units.  It is written  *)
(* here as the TLA+ string that spells its code units one after the other: *)
(* a code unit from U+0020 to U+007E other than the backslash and the      *)
(* grave accent, and tab, line feed, form feed and carriage return, as the *)
(* character itself; the backslash as two backslashes; any other code unit *)
(* as a backslash, the letter u and its four hexadecimal digits in lower   *)
(* case; a character outside the basic plane is its two surrogates.  The   *)
(* string made of Rice and a no-break space is the ten characters          *)
(* R i c e \ u 0 0 a 0, the literal "Rice\\u00a0" of this module.  Two     *)
(* JavaScript strings are equal exactly when their spellings are, and the  *)
(* spelling of a concatenation is the concatenation of the spellings.      *)
(***************************************************************************)
Digits == {"0", "1", "2", "3", "4", "5", "6", "7", "8", "9"}

\* Statement order: F applied to the value of v, v being computed first.
Then(v, F(_)) == CHOOSE r \in {F(x) : x \in {v}} : TRUE

\* The character of s at position i, as a string of length 1.
CharAt(s, i) == SubSeq(s, i, i)

MinOf(S) == CHOOSE x \in S : \A y \in S : x <= y

MaxOf(S) == CHOOSE x \in S : \A y \in S : x >= y

\* The number of characters that spell the code unit of s whose spelling
\* begins at position i.
UnitLen(s, i) ==
    IF CharAt(s, i) # "\\" THEN 1 ELSE IF CharAt(s, i + 1) = "u" THEN 6 ELSE 2

\* The positions, from i on, at which the spelling of a code unit of s
\* begins, one beginning at i: in a run of backslashes every second one,
\* and every other character that no spelling begun by a backslash covers.
StartsFrom(s, i) ==
    LET marks == {p \in i..Len(s) : CharAt(s, p) = "\\"}
        RunStart(p) == MaxOf({q \in marks : q <= p /\ (q = i \/ (q - 1) \notin marks)})
        lead == {p \in marks : (p - RunStart(p)) % 2 = 0}
    IN lead \cup {p \in (i..Len(s)) \ marks :
                    \A q \in lead : p < q \/ p > q + UnitLen(s, q) - 1}

\* The positions of s at which the spelling of a code unit begins.
Starts(s) ==
    IF \A i \in 1..Len(s) : CharAt(s, i) # "\\" THEN 1..Len(s) ELSE StartsFrom(s, 1)

\* The code units of the string s, each as its spelling: s[0], s[1], ...
Units(s) ==
    IF \A i \in 1..Len(s) : CharAt(s, i) # "\\"
    THEN [i \in 1..Len(s) |-> CharAt(s, i)]
    ELSE Then(StartsFrom(s, 1), LAMBDA starts :
             [k \in 1..Cardinality(starts) |->
                 Then(CHOOSE p \in starts : Cardinality({q \in starts : q < p}) = k - 1,
                      LAMBDA p : SubSeq(s, p, p + UnitLen(s, p) - 1))])

RECURSIVE Text(_)
\* The string made of the code units (or code points, or strings) u, by
\* halves.
Text(u) ==
    Then(u, LAMBDA v :
        IF Len(v) = 0 THEN ""
        ELSE IF Len(v) = 1 THEN v[1]
        ELSE Text(SubSeq(v, 1, Len(v) \div 2))
                \o Text(SubSeq(v, Len(v) \div 2 + 1, Len(v))))

\* The characters the regular expression class \s, String.trim() and
\* parseFloat take as white space (WhiteSpace and LineTerminator of
\* ECMAScript): tab, line feed, vertical tab, form feed, carriage return,
\* space, no-break space, U+1680, U+2000 to U+200A, U+2028, U+2029, U+202F,
\* U+205F, U+3000 and U+FEFF.
IsSpace(c) ==
    c \in {"\t", "\n", "\\u000b", "\f", "\r", " ", "\\u00a0", "\\u1680",
           "\\u2000", "\\u2001", "\\u2002", "\\u2003", "\\u2004", "\\u2005",
           "\\u2006", "\\u2007", "\\u2008", "\\u2009", "\\u200a",
           "\\u2028", "\\u2029", "\\u202f", "\\u205f", "\\u3000", "\\ufeff"}

DigitVal(c) ==
    CASE c = "0" -> 0 [] c = "1" -> 1 [] c = "2" -> 2 [] c = "3" -> 3
      [] c = "4" -> 4 [] c = "5" -> 5 [] c = "6" -> 6 [] c = "7" -> 7
      [] c = "8" -> 8 [] c = "9" -> 9

RECURSIVE Points(_)
\* The code points of the code units u: a high surrogate followed by a low
\* one is one code point, spelled by the two; any other unit is one.
Points(u) ==
    LET High(c) == Len(c) = 6 /\ SubSeq(c, 1, 4) \in {"\\ud8", "\\ud9", "\\uda", "\\udb"}
        Low(c)  == Len(c) = 6 /\ SubSeq(c, 1, 4) \in {"\\udc", "\\udd", "\\ude", "\\udf"}
    IN IF \A i \in 1..Len(u) : ~High(u[i]) THEN u
       ELSE IF Len(u) >= 2 /\ High(u[1]) /\ Low(u[2])
            THEN <<u[1] \o u[2]>> \o Points(SubSeq(u, 3, Len(u)))
       ELSE <<u[1]>> \o Points(SubSeq(u, 2, Len(u)))

\* The number of the code point c, one that is spelled with a backslash and
\* is not the backslash.
CodePoint(c) ==
    LET RECURSIVE HexValue(_, _)
        \* The number written by the hexadecimal digits w, continuing from acc.
        HexValue(w, acc) ==
            IF w = "" THEN acc
            ELSE HexValue(Tail(w),
                          16 * acc + (CHOOSE n \in 0..15 :
                                         CharAt("0123456789abcdef", n + 1) = Head(w)))
    IN IF Len(c) = 6 THEN HexValue(SubSeq(c, 3, 6), 0)
       ELSE 65536 + 1024 * (HexValue(SubSeq(c, 3, 6), 0) - 55296)
                  + (HexValue(SubSeq(c, 9, 12), 0) - 56320)

\* The spelling of the code point of number n, n being 128 or more.
FromCodePoint(n) ==
    LET RECURSIVE HexText(_, _)
        \* The last k hexadecimal digits of the number m.
        HexText(m, k) ==
            IF k = 0 THEN ""
            ELSE HexText(m \div 16, k - 1) \o CharAt("0123456789abcdef", (m % 16) + 1)
    IN IF n < 65536 THEN "\\u" \o HexText(n, 4)
       ELSE "\\u" \o HexText(55296 + (n - 65536) \div 1024, 4)
               \o "\\u" \o HexText(56320 + ((n - 65536) % 1024), 4)

\* The simple lower-case mappings of the Unicode character database
\* (version 17.0) for the code points from U+0080 on, in runs <<first, last, step, delta>>:
\* the code points first, first + step, ..., last map to themselves plus
\* delta.  (U+0130 and U+212A are in LowerChar.)
UnicodeLower ==
  <<<<192, 214, 1, 32>>, <<216, 222, 1, 32>>, <<256, 302, 2, 1>>,
    <<306, 310, 2, 1>>, <<313, 327, 2, 1>>, <<330, 374, 2, 1>>,
    <<376, 376, 1, -121>>, <<377, 381, 2, 1>>, <<385, 385, 1, 210>>,
    <<386, 388, 2, 1>>, <<390, 390, 1, 206>>, <<391, 391, 1, 1>>,
    <<393, 394, 1, 205>>, <<395, 395, 1, 1>>, <<398, 398, 1, 79>>,
    <<399, 399, 1, 202>>, <<400, 400, 1, 203>>, <<401, 401, 1, 1>>,
    <<403, 403, 1, 205>>, <<404, 404, 1, 207>>, <<406, 406, 1, 211>>,
    <<407, 407, 1, 209>>, <<408, 408, 1, 1>>, <<412, 412, 1, 211>>,
    <<413, 413, 1, 213>>, <<415, 415, 1, 214>>, <<416, 420, 2, 1>>,
    <<422, 422, 1, 218>>, <<423, 423, 1, 1>>, <<425, 425, 1, 218>>,
    <<428, 428, 1, 1>>, <<430, 430, 1, 218>>, <<431, 431, 1, 1>>,
    <<433, 434, 1, 217>>, <<435, 437, 2, 1>>, <<439, 439, 1, 219>>,
    <<440, 440, 1, 1>>, <<444, 444, 1, 1>>, <<452, 452, 1, 2>>,
    <<453, 453, 1, 1>>, <<455, 455, 1, 2>>, <<456, 456, 1, 1>>,
    <<458, 458, 1, 2>>, <<459, 475, 2, 1>>, <<478, 494, 2, 1>>,
    <<497, 497, 1, 2>>, <<498, 500, 2, 1>>, <<502, 502, 1, -97>>,
    <<503, 503, 1, -56>>, <<504, 542, 2, 1>>, <<544, 544, 1, -130>>,
    <<546, 562, 2, 1>>, <<570, 570, 1, 10795>>, <<571, 571, 1, 1>>,
    <<573, 573, 1, -163>>, <<574, 574, 1, 10792>>, <<577, 577, 1, 1>>,
    <<579, 579, 1, -195>>, <<580, 580, 1, 69>>, <<581, 581, 1, 71>>,
    <<582, 590, 2, 1>>, <<880, 882, 2, 1>>, <<886, 886, 1, 1>>,
    <<895, 895, 1, 116>>, <<902, 902, 1, 38>>, <<904, 906, 1, 37>>,
    <<908, 908, 1, 64>>, <<910, 911, 1, 63>>, <<913, 929, 1, 32>>,
    <<931, 939, 1, 32>>, <<975, 975, 1, 8>>, <<984, 1006, 2, 1>>,
    <<1012, 1012, 1, -60>>, <<1015, 1015, 1, 1>>, <<1017, 1017, 1, -7>>,
    <<1018, 1018, 1, 1>>, <<1021, 1023, 1, -130>>, <<1024, 1039, 1, 80>>,
    <<1040, 1071, 1, 32>>, <<1120, 1152, 2, 1>>, <<1162, 1214, 2, 1>>,
    <<1216, 1216, 1, 15>>, <<1217, 1229, 2, 1>>, <<1232, 1326, 2, 1>>,
    <<1329, 1366, 1, 48>>, <<4256, 4293, 1, 7264>>, <<4295, 4295, 1, 7264>>,
    <<4301, 4301, 1, 7264>>, <<5024, 5103, 1, 38864>>, <<5104, 5109, 1, 8>>,
    <<7305, 7305, 1, 1>>, <<7312, 7354, 1, -3008>>, <<7357, 7359, 1, -3008>>,
    <<7680, 7828, 2, 1>>, <<7838, 7838, 1, -7615>>, <<7840, 7934, 2, 1>>,
    <<7944, 7951, 1, -8>>, <<7960, 7965, 1, -8>>, <<7976, 7983, 1, -8>>,
    <<7992, 7999, 1, -8>>, <<8008, 8013, 1, -8>>, <<8025, 8031, 2, -8>>,
    <<8040, 8047, 1, -8>>, <<8072, 8079, 1, -8>>, <<8088, 8095, 1, -8>>,
    <<8104, 8111, 1, -8>>, <<8120, 8121, 1, -8>>, <<8122, 8123, 1, -74>>,
    <<8124, 8124, 1, -9>>, <<8136, 8139, 1, -86>>, <<8140, 8140, 1, -9>>,
    <<8152, 8153, 1, -8>>, <<8154, 8155, 1, -100>>, <<8168, 8169, 1, -8>>,
    <<8170, 8171, 1, -112>>, <<8172, 8172, 1, -7>>, <<8184, 8185, 1, -128>>,
    <<8186, 8187, 1, -126>>, <<8188, 8188, 1, -9>>, <<8486, 8486, 1, -7517>>,
    <<8491, 8491, 1, -8262>>, <<8498, 8498, 1, 28>>, <<8544, 8559, 1, 16>>,
    <<8579, 8579, 1, 1>>, <<9398, 9423, 1, 26>>, <<11264, 11311, 1, 48>>,
    <<11360, 11360, 1, 1>>, <<11362, 11362, 1, -10743>>,
    <<11363, 11363, 1, -3814>>, <<11364, 11364, 1, -10727>>,
    <<11367, 11371, 2, 1>>, <<11373, 11373, 1, -10780>>,
    <<11374, 11374, 1, -10749>>, <<11375, 11375, 1, -10783>>,
    <<11376, 11376, 1, -10782>>, <<11378, 11378, 1, 1>>,
    <<11381, 11381, 1, 1>>, <<11390, 11391, 1, -10815>>,
    <<11392, 11490, 2, 1>>, <<11499, 11501, 2, 1>>, <<11506, 11506, 1, 1>>,
    <<42560, 42604, 2, 1>>, <<42624, 42650, 2, 1>>, <<42786, 42798, 2, 1>>,
    <<42802, 42862, 2, 1>>, <<42873, 42875, 2, 1>>,
    <<42877, 42877, 1, -35332>>, <<42878, 42886, 2, 1>>,
    <<42891, 42891, 1, 1>>, <<42893, 42893, 1, -42280>>,
    <<42896, 42898, 2, 1>>, <<42902, 42920, 2, 1>>,
    <<42922, 42922, 1, -42308>>, <<42923, 42923, 1, -42319>>,
    <<42924, 42924, 1, -42315>>, <<42925, 42925, 1, -42305>>,
    <<42926, 42926, 1, -42308>>, <<42928, 42928, 1, -42258>>,
    <<42929, 42929, 1, -42282>>, <<42930, 42930, 1, -42261>>,
    <<42931, 42931, 1, 928>>, <<42932, 42946, 2, 1>>,
    <<42948, 42948, 1, -48>>, <<42949, 42949, 1, -42307>>,
    <<42950, 42950, 1, -35384>>, <<42951, 42953, 2, 1>>,
    <<42955, 42955, 1, -42343>>, <<42956, 42970, 2, 1>>,
    <<42972, 42972, 1, -42561>>, <<42997, 42997, 1, 1>>,
    <<65313, 65338, 1, 32>>, <<66560, 66599, 1, 40>>,
    <<66736, 66771, 1, 40>>, <<66928, 66938, 1, 39>>,
    <<66940, 66954, 1, 39>>, <<66956, 66962, 1, 39>>,
    <<66964, 66965, 1, 39>>, <<68736, 68786, 1, 64>>,
    <<68944, 68965, 1, 32>>, <<71840, 71871, 1, 32>>,
    <<93760, 93791, 1, 32>>, <<93856, 93880, 1, 27>>,
    <<125184, 125217, 1, 34>>>>

\* The code points from U+0080 on that are cased and not case-ignorable
\* (Unicode character database), in ranges <<first, last>>.
UnicodeCased ==
  <<<<170, 170>>, <<181, 181>>, <<186, 186>>, <<192, 214>>, <<216, 246>>,
    <<248, 442>>, <<444, 447>>, <<452, 659>>, <<662, 687>>, <<880, 883>>,
    <<886, 887>>, <<891, 893>>, <<895, 895>>, <<902, 902>>, <<904, 906>>,
    <<908, 908>>, <<910, 929>>, <<931, 1013>>, <<1015, 1153>>,
    <<1162, 1327>>, <<1329, 1366>>, <<1376, 1416>>, <<4256, 4293>>,
    <<4295, 4295>>, <<4301, 4301>>, <<4304, 4346>>, <<4349, 4351>>,
    <<5024, 5109>>, <<5112, 5117>>, <<7296, 7306>>, <<7312, 7354>>,
    <<7357, 7359>>, <<7424, 7467>>, <<7531, 7543>>, <<7545, 7578>>,
    <<7680, 7957>>, <<7960, 7965>>, <<7968, 8005>>, <<8008, 8013>>,
    <<8016, 8023>>, <<8025, 8025>>, <<8027, 8027>>, <<8029, 8029>>,
    <<8031, 8061>>, <<8064, 8116>>, <<8118, 8124>>, <<8126, 8126>>,
    <<8130, 8132>>, <<8134, 8140>>, <<8144, 8147>>, <<8150, 8155>>,
    <<8160, 8172>>, <<8178, 8180>>, <<8182, 8188>>, <<8450, 8450>>,
    <<8455, 8455>>, <<8458, 8467>>, <<8469, 8469>>, <<8473, 8477>>,
    <<8484, 8484>>, <<8486, 8486>>, <<8488, 8488>>, <<8490, 8493>>,
    <<8495, 8500>>, <<8505, 8505>>, <<8508, 8511>>, <<8517, 8521>>,
    <<8526, 8526>>, <<8544, 8575>>, <<8579, 8580>>, <<9398, 9449>>,
    <<11264, 11387>>, <<11390, 11492>>, <<11499, 11502>>, <<11506, 11507>>,
    <<11520, 11557>>, <<11559, 11559>>, <<11565, 11565>>, <<42560, 42605>>,
    <<42624, 42651>>, <<42786, 42863>>, <<42865, 42887>>, <<42891, 42894>>,
    <<42896, 42972>>, <<42997, 42998>>, <<43002, 43002>>, <<43824, 43866>>,
    <<43872, 43880>>, <<43888, 43967>>, <<64256, 64262>>, <<64275, 64279>>,
    <<65313, 65338>>, <<65345, 65370>>, <<66560, 66639>>, <<66736, 66771>>,
    <<66776, 66811>>, <<66928, 66938>>, <<66940, 66954>>, <<66956, 66962>>,
    <<66964, 66965>>, <<66967, 66977>>, <<66979, 66993>>, <<66995, 67001>>,
    <<67003, 67004>>, <<68736, 68786>>, <<68800, 68850>>, <<68944, 68965>>,
    <<68976, 68997>>, <<71840, 71903>>, <<93760, 93823>>, <<93856, 93880>>,
    <<93883, 93907>>, <<119808, 119892>>, <<119894, 119964>>,
    <<119966, 119967>>, <<119970, 119970>>, <<119973, 119974>>,
    <<119977, 119980>>, <<119982, 119993>>, <<119995, 119995>>,
    <<119997, 120003>>, <<120005, 120069>>, <<120071, 120074>>,
    <<120077, 120084>>, <<120086, 120092>>, <<120094, 120121>>,
    <<120123, 120126>>, <<120128, 120132>>, <<120134, 120134>>,
    <<120138, 120144>>, <<120146, 120485>>, <<120488, 120512>>,
    <<120514, 120538>>, <<120540, 120570>>, <<120572, 120596>>,
    <<120598, 120628>>, <<120630, 120654>>, <<120656, 120686>>,
    <<120688, 120712>>, <<120714, 120744>>, <<120746, 120770>>,
    <<120772, 120779>>, <<122624, 122633>>, <<122635, 122654>>,
    <<122661, 122666>>, <<125184, 125251>>, <<127280, 127305>>,
    <<127312, 127337>>, <<127344, 127369>>>>

\* The case-ignorable code points from U+0080 on (Unicode character
\* database), in ranges <<first, last>>.
UnicodeCaseIgnorable ==
  <<<<168, 168>>, <<173, 173>>, <<175, 175>>, <<180, 180>>, <<183, 184>>,
    <<688, 879>>, <<884, 885>>, <<890, 890>>, <<900, 901>>, <<903, 903>>,
    <<1155, 1161>>, <<1369, 1369>>, <<1375, 1375>>, <<1425, 1469>>,
    <<1471, 1471>>, <<1473, 1474>>, <<1476, 1477>>, <<1479, 1479>>,
    <<1524, 1524>>, <<1536, 1541>>, <<1552, 1562>>, <<1564, 1564>>,
    <<1600, 1600>>, <<1611, 1631>>, <<1648, 1648>>, <<1750, 1757>>,
    <<1759, 1768>>, <<1770, 1773>>, <<1807, 1807>>, <<1809, 1809>>,
    <<1840, 1866>>, <<1958, 1968>>, <<2027, 2037>>, <<2042, 2042>>,
    <<2045, 2045>>, <<2070, 2093>>, <<2137, 2139>>, <<2184, 2184>>,
    <<2192, 2193>>, <<2199, 2207>>, <<2249, 2306>>, <<2362, 2362>>,
    <<2364, 2364>>, <<2369, 2376>>, <<2381, 2381>>, <<2385, 2391>>,
    <<2402, 2403>>, <<2417, 2417>>, <<2433, 2433>>, <<2492, 2492>>,
    <<2497, 2500>>, <<2509, 2509>>, <<2530, 2531>>, <<2558, 2558>>,
    <<2561, 2562>>, <<2620, 2620>>, <<2625, 2626>>, <<2631, 2632>>,
    <<2635, 2637>>, <<2641, 2641>>, <<2672, 2673>>, <<2677, 2677>>,
    <<2689, 2690>>, <<2748, 2748>>, <<2753, 2757>>, <<2759, 2760>>,
    <<2765, 2765>>, <<2786, 2787>>, <<2810, 2815>>, <<2817, 2817>>,
    <<2876, 2876>>, <<2879, 2879>>, <<2881, 2884>>, <<2893, 2893>>,
    <<2901, 2902>>, <<2914, 2915>>, <<2946, 2946>>, <<3008, 3008>>,
    <<3021, 3021>>, <<3072, 3072>>, <<3076, 3076>>, <<3132, 3132>>,
    <<3134, 3136>>, <<3142, 3144>>, <<3146, 3149>>, <<3157, 3158>>,
    <<3170, 3171>>, <<3201, 3201>>, <<3260, 3260>>, <<3263, 3263>>,
    <<3270, 3270>>, <<3276, 3277>>, <<3298, 3299>>, <<3328, 3329>>,
    <<3387, 3388>>, <<3393, 3396>>, <<3405, 3405>>, <<3426, 3427>>,
    <<3457, 3457>>, <<3530, 3530>>, <<3538, 3540>>, <<3542, 3542>>,
    <<3633, 3633>>, <<3636, 3642>>, <<3654, 3662>>, <<3761, 3761>>,
    <<3764, 3772>>, <<3782, 3782>>, <<3784, 3790>>, <<3864, 3865>>,
    <<3893, 3893>>, <<3895, 3895>>, <<3897, 3897>>, <<3953, 3966>>,
    <<3968, 3972>>, <<3974, 3975>>, <<3981, 3991>>, <<3993, 4028>>,
    <<4038, 4038>>, <<4141, 4144>>, <<4146, 4151>>, <<4153, 4154>>,
    <<4157, 4158>>, <<4184, 4185>>, <<4190, 4192>>, <<4209, 4212>>,
    <<4226, 4226>>, <<4229, 4230>>, <<4237, 4237>>, <<4253, 4253>>,
    <<4348, 4348>>, <<4957, 4959>>, <<5906, 5908>>, <<5938, 5939>>,
    <<5970, 5971>>, <<6002, 6003>>, <<6068, 6069>>, <<6071, 6077>>,
    <<6086, 6086>>, <<6089, 6099>>, <<6103, 6103>>, <<6109, 6109>>,
    <<6155, 6159>>, <<6211, 6211>>, <<6277, 6278>>, <<6313, 6313>>,
    <<6432, 6434>>, <<6439, 6440>>, <<6450, 6450>>, <<6457, 6459>>,
    <<6679, 6680>>, <<6683, 6683>>, <<6742, 6742>>, <<6744, 6750>>,
    <<6752, 6752>>, <<6754, 6754>>, <<6757, 6764>>, <<6771, 6780>>,
    <<6783, 6783>>, <<6823, 6823>>, <<6832, 6877>>, <<6880, 6891>>,
    <<6912, 6915>>, <<6964, 6964>>, <<6966, 6970>>, <<6972, 6972>>,
    <<6978, 6978>>, <<7019, 7027>>, <<7040, 7041>>, <<7074, 7077>>,
    <<7080, 7081>>, <<7083, 7085>>, <<7142, 7142>>, <<7144, 7145>>,
    <<7149, 7149>>, <<7151, 7153>>, <<7212, 7219>>, <<7222, 7223>>,
    <<7288, 7293>>, <<7376, 7378>>, <<7380, 7392>>, <<7394, 7400>>,
    <<7405, 7405>>, <<7412, 7412>>, <<7416, 7417>>, <<7468, 7530>>,
    <<7544, 7544>>, <<7579, 7679>>, <<8125, 8125>>, <<8127, 8129>>,
    <<8141, 8143>>, <<8157, 8159>>, <<8173, 8175>>, <<8189, 8190>>,
    <<8203, 8207>>, <<8216, 8217>>, <<8228, 8228>>, <<8231, 8231>>,
    <<8234, 8238>>, <<8288, 8292>>, <<8294, 8303>>, <<8305, 8305>>,
    <<8319, 8319>>, <<8336, 8348>>, <<8400, 8432>>, <<11388, 11389>>,
    <<11503, 11505>>, <<11631, 11631>>, <<11647, 11647>>, <<11744, 11775>>,
    <<11823, 11823>>, <<12293, 12293>>, <<12330, 12333>>, <<12337, 12341>>,
    <<12347, 12347>>, <<12441, 12446>>, <<12540, 12542>>, <<40981, 40981>>,
    <<42232, 42237>>, <<42508, 42508>>, <<42607, 42610>>, <<42612, 42621>>,
    <<42623, 42623>>, <<42652, 42655>>, <<42736, 42737>>, <<42752, 42785>>,
    <<42864, 42864>>, <<42888, 42890>>, <<42993, 42996>>, <<43000, 43001>>,
    <<43010, 43010>>, <<43014, 43014>>, <<43019, 43019>>, <<43045, 43046>>,
    <<43052, 43052>>, <<43204, 43205>>, <<43232, 43249>>, <<43263, 43263>>,
    <<43302, 43309>>, <<43335, 43345>>, <<43392, 43394>>, <<43443, 43443>>,
    <<43446, 43449>>, <<43452, 43453>>, <<43471, 43471>>, <<43493, 43494>>,
    <<43561, 43566>>, <<43569, 43570>>, <<43573, 43574>>, <<43587, 43587>>,
    <<43596, 43596>>, <<43632, 43632>>, <<43644, 43644>>, <<43696, 43696>>,
    <<43698, 43700>>, <<43703, 43704>>, <<43710, 43711>>, <<43713, 43713>>,
    <<43741, 43741>>, <<43756, 43757>>, <<43763, 43764>>, <<43766, 43766>>,
    <<43867, 43871>>, <<43881, 43883>>, <<44005, 44005>>, <<44008, 44008>>,
    <<44013, 44013>>, <<64286, 64286>>, <<64434, 64450>>, <<65024, 65039>>,
    <<65043, 65043>>, <<65056, 65071>>, <<65106, 65106>>, <<65109, 65109>>,
    <<65279, 65279>>, <<65287, 65287>>, <<65294, 65294>>, <<65306, 65306>>,
    <<65342, 65342>>, <<65344, 65344>>, <<65392, 65392>>, <<65438, 65439>>,
    <<65507, 65507>>, <<65529, 65531>>, <<66045, 66045>>, <<66272, 66272>>,
    <<66422, 66426>>, <<67456, 67461>>, <<67463, 67504>>, <<67506, 67514>>,
    <<68097, 68099>>, <<68101, 68102>>, <<68108, 68111>>, <<68152, 68154>>,
    <<68159, 68159>>, <<68325, 68326>>, <<68900, 68903>>, <<68942, 68942>>,
    <<68969, 68973>>, <<68975, 68975>>, <<69291, 69292>>, <<69317, 69317>>,
    <<69370, 69375>>, <<69446, 69456>>, <<69506, 69509>>, <<69633, 69633>>,
    <<69688, 69702>>, <<69744, 69744>>, <<69747, 69748>>, <<69759, 69761>>,
    <<69811, 69814>>, <<69817, 69818>>, <<69821, 69821>>, <<69826, 69826>>,
    <<69837, 69837>>, <<69888, 69890>>, <<69927, 69931>>, <<69933, 69940>>,
    <<70003, 70003>>, <<70016, 70017>>, <<70070, 70078>>, <<70089, 70092>>,
    <<70095, 70095>>, <<70191, 70193>>, <<70196, 70196>>, <<70198, 70199>>,
    <<70206, 70206>>, <<70209, 70209>>, <<70367, 70367>>, <<70371, 70378>>,
    <<70400, 70401>>, <<70459, 70460>>, <<70464, 70464>>, <<70502, 70508>>,
    <<70512, 70516>>, <<70587, 70592>>, <<70606, 70606>>, <<70608, 70608>>,
    <<70610, 70610>>, <<70625, 70626>>, <<70712, 70719>>, <<70722, 70724>>,
    <<70726, 70726>>, <<70750, 70750>>, <<70835, 70840>>, <<70842, 70842>>,
    <<70847, 70848>>, <<70850, 70851>>, <<71090, 71093>>, <<71100, 71101>>,
    <<71103, 71104>>, <<71132, 71133>>, <<71219, 71226>>, <<71229, 71229>>,
    <<71231, 71232>>, <<71339, 71339>>, <<71341, 71341>>, <<71344, 71349>>,
    <<71351, 71351>>, <<71453, 71453>>, <<71455, 71455>>, <<71458, 71461>>,
    <<71463, 71467>>, <<71727, 71735>>, <<71737, 71738>>, <<71995, 71996>>,
    <<71998, 71998>>, <<72003, 72003>>, <<72148, 72151>>, <<72154, 72155>>,
    <<72160, 72160>>, <<72193, 72202>>, <<72243, 72248>>, <<72251, 72254>>,
    <<72263, 72263>>, <<72273, 72278>>, <<72281, 72283>>, <<72330, 72342>>,
    <<72344, 72345>>, <<72544, 72544>>, <<72546, 72548>>, <<72550, 72550>>,
    <<72752, 72758>>, <<72760, 72765>>, <<72767, 72767>>, <<72850, 72871>>,
    <<72874, 72880>>, <<72882, 72883>>, <<72885, 72886>>, <<73009, 73014>>,
    <<73018, 73018>>, <<73020, 73021>>, <<73023, 73029>>, <<73031, 73031>>,
    <<73104, 73105>>, <<73109, 73109>>, <<73111, 73111>>, <<73177, 73177>>,
    <<73459, 73460>>, <<73472, 73473>>, <<73526, 73530>>, <<73536, 73536>>,
    <<73538, 73538>>, <<73562, 73562>>, <<78896, 78912>>, <<78919, 78933>>,
    <<90398, 90409>>, <<90413, 90415>>, <<92912, 92916>>, <<92976, 92982>>,
    <<92992, 92995>>, <<93504, 93506>>, <<93547, 93548>>, <<94031, 94031>>,
    <<94095, 94111>>, <<94176, 94177>>, <<94179, 94180>>, <<94194, 94195>>,
    <<110576, 110579>>, <<110581, 110587>>, <<110589, 110590>>,
    <<113821, 113822>>, <<113824, 113827>>, <<118528, 118573>>,
    <<118576, 118598>>, <<119143, 119145>>, <<119155, 119170>>,
    <<119173, 119179>>, <<119210, 119213>>, <<119362, 119364>>,
    <<121344, 121398>>, <<121403, 121452>>, <<121461, 121461>>,
    <<121476, 121476>>, <<121499, 121503>>, <<121505, 121519>>,
    <<122880, 122886>>, <<122888, 122904>>, <<122907, 122913>>,
    <<122915, 122916>>, <<122918, 122922>>, <<122928, 122989>>,
    <<123023, 123023>>, <<123184, 123197>>, <<123566, 123566>>,
    <<123628, 123631>>, <<124139, 124143>>, <<124398, 124399>>,
    <<124643, 124643>>, <<124646, 124646>>, <<124654, 124655>>,
    <<124661, 124661>>, <<124671, 124671>>, <<125136, 125142>>,
    <<125252, 125259>>, <<127995, 127999>>, <<917505, 917505>>,
    <<917536, 917631>>, <<917760, 917999>>>>

\* The lower case of the code point c as String.prototype.toLowerCase
\* gives it wherever c stands; it is two code points for U+0130.
LowerChar(c) ==
    IF Len(c) = 1
    THEN CASE c = "A" -> "a" [] c = "B" -> "b" [] c = "C" -> "c" [] c = "D" -> "d"
           [] c = "E" -> "e" [] c = "F" -> "f" [] c = "G" -> "g" [] c = "H" -> "h"
           [] c = "I" -> "i" [] c = "J" -> "j" [] c = "K" -> "k" [] c = "L" -> "l"
           [] c = "M" -> "m" [] c = "N" -> "n" [] c = "O" -> "o" [] c = "P" -> "p"
           [] c = "Q" -> "q" [] c = "R" -> "r" [] c = "S" -> "s" [] c = "T" -> "t"
           [] c = "U" -> "u" [] c = "V" -> "v" [] c = "W" -> "w" [] c = "X" -> "x"
           [] c = "Y" -> "y" [] c = "Z" -> "z" [] OTHER -> c
    ELSE IF Len(c) = 2 THEN c
    ELSE IF c = "\\u212a" THEN "k"
    ELSE IF c = "\\u0130" THEN "i\\u0307"
    ELSE Then(CodePoint(c), LAMBDA n :
         Then(SelectSeq(UnicodeLower, LAMBDA r : /\ r[1] <= n /\ n <= r[2]
                                                 /\ (n - r[1]) % r[3] = 0),
              LAMBDA runs : IF Len(runs) = 0 THEN c
                            ELSE FromCodePoint(n + runs[1][4])))

\* The condition Final_Sigma of the Unicode case conversion for position i
\* of the code points p: before it, a cased letter and then case-ignorable
\* code points only; after it, no cased letter reached over case-ignorable
\* code points only.
FinalSigma(p, i) ==
    LET Within(c, ranges) ==
            Then(CodePoint(c), LAMBDA n :
                \E k \in 1..Len(ranges) : ranges[k][1] <= n /\ n <= ranges[k][2])
    IN Then({j \in 1..Len(p) :
                IF Len(p[j]) = 1
                THEN \E k \in 1..26 :
                        p[j] \in {CharAt("abcdefghijklmnopqrstuvwxyz", k),
                                  CharAt("ABCDEFGHIJKLMNOPQRSTUVWXYZ", k)}
                ELSE Len(p[j]) > 2 /\ Within(p[j], UnicodeCased)},
            LAMBDA cased :
       Then({j \in 1..Len(p) :
                IF Len(p[j]) = 1 THEN p[j] \in {"'", ".", ":", "^"}
                ELSE /\ Len(p[j]) > 2
                     /\ p[j] = "\\u0060" \/ Within(p[j], UnicodeCaseIgnorable)},
            LAMBDA ignorable :
                /\ \E j \in cased :
                      j < i /\ \A k \in (j + 1)..(i - 1) : k \in ignorable
                /\ ~\E j \in cased :
                      j > i /\ \A k \in (i + 1)..(j - 1) : k \in ignorable))

\* String.prototype.toLowerCase: code point by code point, the capital
\* sigma U+03A3 giving the final sigma U+03C2 where Final_Sigma holds.
ToLowerCase(s) ==
    Then(Points(Units(s)), LAMBDA p :
        Text([i \in 1..Len(p) |->
                IF p[i] = "\\u03a3" /\ FinalSigma(p, i) THEN "\\u03c2"
                ELSE LowerChar(p[i])]))

\* String.prototype.trimStart: s from its first code unit that is no white
\* space.
TrimStart(s) ==
    Then({i \in Starts(s) : ~IsSpace(SubSeq(s, i, i + UnitLen(s, i) - 1))},
         LAMBDA inked : IF inked = {} THEN "" ELSE SubSeq(s, MinOf(inked), Len(s)))

\* String.prototype.trim: s from its first to its last code unit that is
\* no white space.
Trim(s) ==
    Then({i \in Starts(s) : ~IsSpace(SubSeq(s, i, i + UnitLen(s, i) - 1))},
         LAMBDA inked :
            IF inked = {} THEN ""
            ELSE SubSeq(s, MinOf(inked), MaxOf(inked) + UnitLen(s, MaxOf(inked)) - 1))

\* String.prototype.includes: the code units of sub occur in a row in s,
\* that is, the spelling of sub occurs in s from the beginning of a code
\* unit (from there on it is read code unit by code unit as sub is).
Includes(s, sub) ==
    \/ sub = ""
    \/ \E i \in Starts(s) :
          i + Len(sub) - 1 <= Len(s) /\ SubSeq(s, i, i + Len(sub) - 1) = sub

\* RegExp alternation of literal words tested against s: some word occurs.
IncludesAny(s, words) == \E w \in words : Includes(s, w)

RECURSIVE Join(_, _)
\* Array.prototype.join of a sequence of strings.
Join(strs, sep) ==
    IF strs = <<>> THEN ""
    ELSE IF Len(strs) = 1 THEN strs[1]
    ELSE strs[1] \o sep \o Join(Tail(strs), sep)

\* String.prototype.split(/\s+/): a maximal run of white space is one
\* separator; "" gives <<"">>, " a" gives <<"", "a">>.
SplitWs(s) ==
    Then(Units(s), LAMBDA u :
        LET starts == {1} \cup {i + 1 : i \in {j \in 1..Len(u) :
                                    /\ IsSpace(u[j])
                                    /\ j = Len(u) \/ ~IsSpace(u[j + 1])}}
            FieldAt(p) ==
                LET stops == {j \in p..Len(u) : IsSpace(u[j])}
                IN Text(SubSeq(u, p, IF stops = {} THEN Len(u) ELSE MinOf(stops) - 1))
        IN [k \in 1..Cardinality(starts) |->
              FieldAt(CHOOSE p \in starts : Cardinality({q \in starts : q < p}) = k - 1)])

\* Array.prototype.slice(0, n)
Slice0(seq, n) == SubSeq(seq, 1, IF Len(seq) < n THEN Len(seq) ELSE n)

\* The longest prefix of s made of decimal digits.
DigitPrefix(s) ==
    LET others == {i \in 1..Len(s) : CharAt(s, i) \notin Digits}
    IN SubSeq(s, 1, IF others = {} THEN Len(s) ELSE MinOf(others) - 1)

RECURSIVE DigitsValue(_, _)
\* The number written by the digit string s, continuing from acc.
DigitsValue(s, acc) ==
    IF s = "" THEN acc ELSE DigitsValue(Tail(s), 10 * acc + DigitVal(Head(s)))

RECURSIVE Pow10(_)
Pow10(e) == IF e = 0 THEN 1 ELSE 10 * Pow10(e - 1)

RECURSIVE ZeroPad(_, _)
ZeroPad(s, width) == IF Len(s) >= width THEN s ELSE ZeroPad("0" \o s, width)

(***************************************************************************)
(* JavaScript values                                                       *)
(*   undefined, null, booleans, strings, numbers, arrays, plain objects.   *)
(* A number is n / 10^e with e = 0 or n not a multiple of 10 (so equal     *)
(* numbers are equal records), or NaN.  An object is a function from its   *)
(* own keys to values; a key that is not in the domain reads as undefined. *)
(* The one object whose prototype is not Object.prototype, an optionMeal   *)
(* of flattenOptions after Object.assign has run the __proto__ setter,     *)
(* carries the prototype in a field proto.                                 *)
(***************************************************************************)
Undefined == [t |-> "undefined"]
Null      == [t |-> "null"]
Bool(b)   == [t |-> "boolean", b |-> b]
Str(s)    == [t |-> "string", s |-> s]
Num(n)    == [t |-> "number", n |-> n, e |-> 0]
NaN       == [t |-> "number", nan |-> TRUE]
Arr(a)    == [t |-> "array", a |-> a]
Obj(o)    == [t |-> "object", o |-> o]

EmptyFields == [k \in {} |-> Undefined]

RECURSIVE Dec(_, _)
\* The number n / 10^e in normal form.
Dec(n, e) ==
    IF e > 0 /\ n % 10 = 0 THEN Dec(n \div 10, e - 1)
    ELSE [t |-> "number", n |-> n, e |-> e]

\* The digits of 2^-1075 / 10^-324 = 2.4703282292062327...: half the
\* distance between neighbouring doubles around zero, in units of 10^-324.
HalfStep == "24703282292062327208828439643411068618252990"

RECURSIVE Limbs(_)
\* The digits in base 10^4, the lowest first, of the number the digit
\* string s writes.
Limbs(s) ==
    <<DigitsValue(SubSeq(s, IF Len(s) <= 4 THEN 1 ELSE Len(s) - 3, Len(s)), 0)>>
        \o (IF Len(s) <= 4 THEN <<>> ELSE Limbs(SubSeq(s, 1, Len(s) - 4)))

RECURSIVE LimbsValue(_)
\* The number of the base 10^4 digits w.
LimbsValue(w) == IF w = <<>> THEN 0 ELSE Head(w) + 10000 * LimbsValue(Tail(w))

\* The whole part of the number of the digits p of HalfSteps.
Whole(p) == LimbsValue(SubSeq(p, 9, Len(p)))

RECURSIVE Carried(_, _)
\* The base 10^4 digits of the number whose digit i is sums[i], a natural
\* number of any size, with carry added at the lowest.
Carried(sums, carry) ==
    IF sums = <<>> THEN <<carry>>
    ELSE <<(Head(sums) + carry) % 10000>>
            \o Carried(Tail(sums), (Head(sums) + carry) \div 10000)

\* m * 2^-1075 / 10^-(324 + j) for a natural number m below 2^31, cut after
\* 32 decimal places and counted in 10^-32: its base 10^4 digits, the
\* lowest first (the first eight are the decimal places).
HalfSteps(m, j) ==
    Then(Limbs(SubSeq(HalfStep, 1, 33 + j)) \o <<0, 0>>, LAMBDA x :
        Carried([t \in DOMAIN x |->
                    x[t] * (m % 10000)
                       + (IF t > 1 THEN x[t - 1] * ((m \div 10000) % 10000) ELSE 0)
                       + (IF t > 2 THEN x[t - 2] * (m \div 100000000) ELSE 0)], 0))

\* a <= the whole part of the number of the digits p of HalfSteps, for a
\* natural number a below 2^31.
WholeReaches(p, a) ==
    \/ \E i \in 12..Len(p) : p[i] # 0
    \/ p[11] > a \div 100000000
    \/ /\ p[11] = a \div 100000000
       /\ \/ p[10] > (a \div 10000) % 10000
          \/ p[10] = (a \div 10000) % 10000 /\ p[9] >= a % 10000

RECURSIVE Cell(_, _, _, _)
\* The least k in low..high with a / 10^(324 + j) < (2k + 1) * 2^-1075.
Cell(a, j, low, high) ==
    IF low = high THEN low
    ELSE IF WholeReaches(HalfSteps(2 * ((low + high) \div 2) + 1, j), a)
    THEN Cell(a, j, low, (low + high) \div 2)
    ELSE Cell(a, j, (low + high) \div 2 + 1, high)

\* The number of digits of the natural number d, zeros at its end aside.
Significant(d) == Len(ToString(Dec(d, 324).n))

\* The double nearest to a / 10^(324 + j), for a natural number a below
\* 2^31 that is no multiple of 10 and j in 0..8: it is k * 2^-1074 for the
\* k with (2k - 1) * 2^-1075 < a / 10^(324 + j) < (2k + 1) * 2^-1075, and
\* the number is written as Number.prototype.toString writes it, with the
\* fewest digits that give a decimal nearer to this double than to any
\* other, and of such decimals the nearest.  The result is that decimal
\* counted in 10^-324 (0 when k = 0).
Subnormal(a, j) ==
    Then(Cell(a, j, 0, a \div (4 * Pow10(j)) + 1), LAMBDA k :
       IF k = 0 THEN 0
       ELSE Then(HalfSteps(2 * k, 0), LAMBDA double :
            Then(Whole(double), LAMBDA floor :
            Then(IF double[8] >= 5000 THEN 1 ELSE 0, LAMBDA half :
            Then((Whole(HalfSteps(2 * k - 1, 0)) + 1)..Whole(HalfSteps(2 * k + 1, 0)),
                 LAMBDA near :
            Then({d \in near : \A c \in near : Significant(d) <= Significant(c)},
                 LAMBDA short :
               CHOOSE d \in short : \A c \in short \ {d} :
                  IF d < c THEN (d - floor) + (c - floor) > half
                  ELSE (d - floor) + (c - floor) <= half))))))

\* The double nearest to n / 10^e, as the decimal fraction toString writes
\* for it, for an integer n below 2^31 in magnitude: n / 10^e itself down
\* to the multiples of 10^-323, which a double tells apart; below, the
\* doubles are the multiples of 2^-1074 and the number is rounded to one
\* of them (to 0 when it is below 2^-1075; -0 is the number 0 here).
Double(n, e) ==
    Then(Dec(n, e), LAMBDA v :
        IF v.e <= 323 THEN v
        ELSE IF v.e >= 333 THEN Num(0)
        ELSE Then(Subnormal(IF v.n < 0 THEN -v.n ELSE v.n, v.e - 324), LAMBDA d :
                IF d = 0 THEN Num(0) ELSE Dec(IF v.n < 0 THEN -d ELSE d, 324)))

IsNaN(v) == v.t = "number" /\ "nan" \in DOMAIN v

\* value === null || value === undefined
IsNullish(v) == v.t \in {"undefined", "null"}

\* typeof v === 'object' && v !== null   (arrays are objects)
IsObjectLike(v) == v.t \in {"object", "array"}

\* ToBoolean
Truthy(v) ==
    CASE v.t \in {"undefined", "null"} -> FALSE
      [] v.t = "boolean" -> v.b
      [] v.t = "string" -> v.s # ""
      [] v.t = "number" -> ~IsNaN(v) /\ v.n # 0
      [] OTHER -> TRUE

RECURSIVE Get(_, _)
\* Property read obj.k for the keys the program reads (none of them is a
\* member of Object.prototype or Array.prototype): the own key, else the
\* key of the prototype, else undefined; undefined for non-objects.
Get(v, k) ==
    IF v.t # "object" THEN Undefined
    ELSE IF k \in DOMAIN v.o THEN v.o[k]
    ELSE IF "proto" \in DOMAIN v THEN Get(v.proto, k)
    ELSE Undefined

\* Object spread / Object.assign: the keys of b override those of a.
Assign(a, b) ==
    [k \in (DOMAIN a) \cup (DOMAIN b) |-> IF k \in DOMAIN b THEN b[k] ELSE a[k]]

\* delete obj[k]
Delete(a, k) == [j \in (DOMAIN a) \ {k} |-> a[j]]

\* obj[k] = v for a value v that is not an object.  On an object without an
\* own key __proto__ that key is the accessor of Object.prototype, whose
\* setter ignores such a value: no key is added.
Put(a, k, v) ==
    IF k = "__proto__" /\ k \notin DOMAIN a THEN a ELSE Assign(a, [j \in {k} |-> v])

\* Number.prototype.toString for n / 10^e, a number below 10^21 in
\* magnitude: with k digits and the decimal point after digit k - e, the
\* digits with the point in them when k - e > 0, "0." and zeros before the
\* digits when -6 < k - e <= 0, and exponent notation ("1e-7", "1.5e-7")
\* for a smaller number.
NumberToString(v) ==
    IF IsNaN(v) THEN "NaN"
    ELSE IF v.e = 0 THEN ToString(v.n)
    ELSE Then(ToString(IF v.n < 0 THEN -v.n ELSE v.n), LAMBDA digits :
         Then(Len(digits), LAMBDA k :
         Then(k - v.e, LAMBDA point :
            (IF v.n < 0 THEN "-" ELSE "")
                \o (IF point > 0
                    THEN SubSeq(digits, 1, point) \o "." \o SubSeq(digits, point + 1, k)
                    ELSE IF point > -6 THEN "0." \o ZeroPad(digits, v.e)
                    ELSE SubSeq(digits, 1, 1)
                            \o (IF k > 1 THEN "." \o SubSeq(digits, 2, k) ELSE "")
                            \o "e-" \o ToString(1 - point)))))

\* The exception String(v), `${v}`, v.toString() and s.trim() raise.
TypeError == [t |-> "throw", error |-> "TypeError"]

RECURSIVE StringThrows(_)
\* String(v), `${v}` and v.toString() raise a TypeError: v is an object
\* with an own key toString (a value parsed from JSON is not a function, and
\* Object.prototype.valueOf returns no primitive), or an array that holds
\* such an element.
StringThrows(v) ==
    CASE v.t = "object" -> "toString" \in DOMAIN v.o
      [] v.t = "array" -> \E i \in DOMAIN v.a : StringThrows(v.a[i])
      [] OTHER -> FALSE

RECURSIVE JsString(_)
RECURSIVE JoinValues(_, _)
\* Array.prototype.join: null and undefined elements give the empty string;
\* TypeError when the conversion of an element raises.
JoinValues(a, sep) ==
    IF \E i \in DOMAIN a : StringThrows(a[i]) THEN TypeError
    ELSE IF a = <<>> THEN ""
    ELSE LET h == IF IsNullish(a[1]) THEN "" ELSE JsString(a[1])
         IN IF Len(a) = 1 THEN h ELSE h \o sep \o JoinValues(Tail(a), sep)

\* String(v), `${v}` and v.toString(): the string, or TypeError when the
\* conversion raises (StringThrows tells which).
JsString(v) ==
    IF StringThrows(v) THEN TypeError
    ELSE CASE v.t = "undefined" -> "undefined"
           [] v.t = "null" -> "null"
           [] v.t = "boolean" -> (IF v.b THEN "true" ELSE "false")
           [] v.t = "string" -> v.s
           [] v.t = "number" -> NumberToString(v)
           [] v.t = "array" -> JoinValues(v.a, ",")
           [] OTHER -> "[object Object]"

\* a || b
OrElse(a, b) == IF Truthy(a) THEN a ELSE b

\* a ?? b
Coalesce(a, b) == IF IsNullish(a) THEN b ELSE a

\* The outcome r of a call raised an exception: r holds the exception in a
\* field threw, in place of the returned value.
Threw(r) == "threw" \in DOMAIN r

\* Statement order with exceptions: an exception raised by v is the outcome
\* of the whole, F being skipped.
Try(v, F(_)) == CHOOSE r \in {IF Threw(x) THEN x ELSE F(x) : x \in {v}} : TRUE

(***************************************************************************)
(* Canonical constraints and mapping tables                                *)
(***************************************************************************)
Range(seq) == {seq[i] : i \in DOMAIN seq}

CANONICAL_REGIONS ==
    <<"India", "USA", "Europe", "Middle_Eastern", "Latin_American",
      "Nordic", "East_Asian", "African", "Australian">>

CANONICAL_DIETS ==
    <<"Regular", "Keto", "Low_Carb", "Vegetarian", "Vegan",
      "Mediterranean", "High_Protein">>

CANONICAL_MEAL_TYPES == <<"breakfast", "lunch", "dinner", "snacks">>

REGION_MAPPING ==
    [Australia |-> "Australian", Oceania |-> "Australian", Oceana |-> "Australian"]
    @@ ("East Asia" :> "East_Asian") @@ ("Latin America" :> "Latin_American")
    @@ ("Middle East" :> "Middle_Eastern") @@ ("United States" :> "USA")

DIET_MAPPING ==
    ("Low Carb" :> "Low_Carb") @@ ("High Protein" :> "High_Protein")
    @@ ("Ketogenic" :> "Keto")

\* TABLE[key] || key, as a value: the string the table holds under its own
\* key; for a key that is a member of Object.prototype, which the table
\* inherits, that member (a function, or Object.prototype itself for
\* __proto__), which is truthy and is no string; else the key.
MapOrSelf(table, key) ==
    IF key \in DOMAIN table THEN Str(table[key])
    ELSE IF key \in {"constructor", "toString", "toLocaleString", "valueOf",
                     "hasOwnProperty", "isPrototypeOf", "propertyIsEnumerable",
                     "__proto__", "__defineGetter__", "__defineSetter__",
                     "__lookupGetter__", "__lookupSetter__"}
         THEN [t |-> "builtin", of |-> "Object.prototype", name |-> key]
    ELSE Str(key)

VEGAN_VIOLATIONS ==
    <<"chicken", "beef", "pork", "fish", "lamb", "shrimp", "crab", "egg", "eggs",
      "milk", "cheese", "yogurt", "butter", "ghee", "honey", "meat", "turkey",
      "bacon", "ham", "sausage", "dairy", "cream", "gelatin", "casein", "whey">>

VEGETARIAN_VIOLATIONS ==
    <<"chicken", "beef", "pork", "fish", "lamb", "shrimp", "crab", "meat",
      "turkey", "bacon", "ham", "sausage", "seafood", "salmon", "tuna">>

\* The inline list of validateAndFix that sends a Vegan record to Vegetarian.
DAIRY_EGG_TERMS ==
    {"egg", "eggs", "milk", "cheese", "yogurt", "butter", "ghee", "cream", "dairy"}

\* this.nextId at construction
InitialNextId == 100000

(***************************************************************************)
(* MealValidator: the object and its methods.  A method that changes the   *)
(* object takes it as `self` and returns [self |-> the object after the    *)
(* call, ret |-> the returned value], or, when the call raises,            *)
(* [self |-> the object as the exception leaves it, threw |-> TypeError].  *)
(* A method that does not change the object returns its value, or          *)
(* TypeError.                                                              *)
(***************************************************************************)
NewValidator ==
    [nextId |-> InitialNextId,
     usedIds |-> {},
     stats |-> [totalProcessed |-> 0, duplicateIds |-> 0, titlesGenerated |-> 0,
                regionMappings |-> 0, dietMappings |-> 0,
                preparationFieldsRemoved |-> 0, optionsFlattened |-> 0,
                veganViolations |-> <<>>, vegetarianViolations |-> <<>>,
                unparseableNutrients |-> <<>>],
     idReassignments |-> EmptyFields,
     regionMappings |-> EmptyFields,
     dietMappings |-> EmptyFields]

\* normalizeMealType without its substring loop: an explicit value that is
\* neither canonical nor "snack" nor "supper" is lunch.
NormalizeMealTypeExact(mealType, title, tags) ==
    IF ~Truthy(mealType)
    THEN IF StringThrows(title) \/ (tags.t = "array" /\ StringThrows(tags))
         THEN TypeError
         ELSE Then(ToLowerCase(JsString(title) \o " "
                      \o (IF tags.t = "array" THEN JoinValues(tags.a, " ") ELSE "")),
                   LAMBDA text :
                     Str(IF IncludesAny(text, {"breakfast", "pancake", "oats", "chai",
                                               "cereal", "toast", "morning"})
                         THEN "breakfast"
                         ELSE IF IncludesAny(text, {"dinner", "curry", "roast", "stew",
                                                    "soup", "evening", "supper"})
                         THEN "dinner"
                         ELSE IF IncludesAny(text, {"snack", "bar", "chips", "nuts",
                                                    "fruit", "cookie"})
                         THEN "snacks"
                         ELSE "lunch"))
    ELSE IF StringThrows(mealType) THEN TypeError
    ELSE Then(Trim(ToLowerCase(JsString(mealType))), LAMBDA normalized :
            Str(IF normalized \in Range(CANONICAL_MEAL_TYPES) THEN normalized
                ELSE IF normalized = "snack" THEN "snacks"
                ELSE IF normalized = "supper" THEN "dinner"
                ELSE "lunch"))

\* normalizeMealType(mealType, title, tags): the meal type as a string
\* value, or TypeError; title is any value (it is interpolated into a
\* template string), tags any value.
NormalizeMealType(mealType, title, tags) ==
    IF ~Truthy(mealType)
    THEN IF StringThrows(title) \/ (tags.t = "array" /\ StringThrows(tags))
         THEN TypeError
         ELSE Then(ToLowerCase(JsString(title) \o " "
                      \o (IF tags.t = "array" THEN JoinValues(tags.a, " ") ELSE "")),
                   LAMBDA text :
                     Str(IF IncludesAny(text, {"breakfast", "pancake", "oats", "chai",
                                               "cereal", "toast", "morning"})
                         THEN "breakfast"
                         ELSE IF IncludesAny(text, {"dinner", "curry", "roast", "stew",
                                                    "soup", "evening", "supper"})
                         THEN "dinner"
                         ELSE IF IncludesAny(text, {"snack", "bar", "chips", "nuts",
                                                    "fruit", "cookie"})
                         THEN "snacks"
                         ELSE "lunch"))
    ELSE IF StringThrows(mealType) THEN TypeError
    ELSE Then(Trim(ToLowerCase(JsString(mealType))), LAMBDA normalized :
         Then({i \in DOMAIN CANONICAL_MEAL_TYPES :
                  Includes(normalized, CANONICAL_MEAL_TYPES[i])}, LAMBDA hits :
            Str(IF normalized \in Range(CANONICAL_MEAL_TYPES) THEN normalized
                ELSE IF normalized = "snack" THEN "snacks"
                ELSE IF normalized = "supper" THEN "dinner"
                ELSE IF hits # {} THEN CANONICAL_MEAL_TYPES[MinOf(hits)]
                ELSE "lunch")))

\* value.replace(/[^\d.-]+/g, ''): keeps the digits, dots and minus signs.
StripNonNumeric(s) ==
    Text(SelectSeq(Units(s), LAMBDA c : c \in Digits \cup {".", "-"}))

\* parseFloat on a string without exponent letters: optional sign, digits,
\* optional dot and digits; the longest such prefix is the number, and a
\* prefix without any digit is NaN.  (-0 is the number 0 here.)
ParseFloat(str) ==
    Then(TrimStart(str), LAMBDA s :
    Then(IF s # "" /\ Head(s) \in {"-", "+"} THEN Tail(s) ELSE s, LAMBDA body :
    Then(DigitPrefix(body), LAMBDA ip :
    Then(SubSeq(body, Len(ip) + 1, Len(body)), LAMBDA rest :
    Then(IF rest # "" /\ Head(rest) = "." THEN DigitPrefix(Tail(rest)) ELSE "",
         LAMBDA fp :
            IF ip = "" /\ fp = "" THEN NaN
            ELSE Double((IF Head(s) = "-" THEN -1 ELSE 1)
                        * (DigitsValue(ip, 0) * Pow10(Len(fp)) + DigitsValue(fp, 0)),
                        Len(fp)))))))

\* parseNumeric without the isNaN test on the parsed string.
ParseNumericUnchecked(self, value, fieldName, mealId) ==
    IF IsNullish(value) \/ value = Str("") THEN [self |-> self, ret |-> Num(0)]
    ELSE IF value.t = "number"
         THEN [self |-> self, ret |-> IF IsNaN(value) THEN Num(0) ELSE value]
    ELSE IF value.t = "string"
         THEN [self |-> self, ret |-> ParseFloat(Trim(StripNonNumeric(value.s)))]
    ELSE [self |-> self, ret |-> Num(0)]

\* parseNumeric that returns 0 for a string without a number and records
\* no event.
ParseNumericSilent(self, value, fieldName, mealId) ==
    IF IsNullish(value) \/ value = Str("") THEN [self |-> self, ret |-> Num(0)]
    ELSE IF value.t = "number"
         THEN [self |-> self, ret |-> IF IsNaN(value) THEN Num(0) ELSE value]
    ELSE IF value.t = "string"
         THEN Then(ParseFloat(Trim(StripNonNumeric(value.s))), LAMBDA parsed :
                 [self |-> self, ret |-> IF IsNaN(parsed) THEN Num(0) ELSE parsed])
    ELSE [self |-> self, ret |-> Num(0)]

\* parseNumeric(value, fieldName, mealId)
ParseNumeric(self, value, fieldName, mealId) ==
    IF IsNullish(value) \/ value = Str("") THEN [self |-> self, ret |-> Num(0)]
    ELSE IF value.t = "number"
         THEN [self |-> self, ret |-> IF IsNaN(value) THEN Num(0) ELSE value]
    ELSE IF value.t = "string"
         THEN Then(ParseFloat(Trim(StripNonNumeric(value.s))), LAMBDA parsed :
                 IF IsNaN(parsed)
                 THEN [self |-> [self EXCEPT !.stats.unparseableNutrients =
                                    Append(@, [id |-> mealId, field |-> fieldName,
                                               value |-> value])],
                       ret |-> Num(0)]
                 ELSE [self |-> self, ret |-> parsed])
    ELSE [self |-> self, ret |-> Num(0)]

\* /^option\s*\d+/i.test(title): without the flag u, the flag i matches a
\* letter of the pattern with its two ASCII cases only.
IsPlaceholderTitle(title) ==
    Then(Units(title), LAMBDA u :
        /\ Len(u) > 6
        /\ \A i \in 1..6 : u[i] \in {CharAt("option", i), CharAt("OPTION", i)}
        /\ LET inked == {i \in 7..Len(u) : ~IsSpace(u[i])}
           IN inked # {} /\ u[MinOf(inked)] \in Digits)

\* The name generateTitle takes from one entry of foods: any value.
FoodTitleName(f) ==
    IF f.t = "string" THEN f
    ELSE IF IsObjectLike(f)
         THEN OrElse(Get(f, "name"), OrElse(Get(f, "title"), Str("")))
    ELSE Str("")

RECURSIVE UsableFoodNames(_)
\* filter(s => s && s.trim()) over the names mapped from the entries fs of
\* foods: the array of the names that are strings with more than white
\* space in them, or TypeError when a name is truthy and is not a string
\* (s.trim is not a function).
UsableFoodNames(fs) ==
    IF fs = <<>> THEN Arr(<<>>)
    ELSE Then(FoodTitleName(fs[1]), LAMBDA s :
            IF Truthy(s) /\ s.t # "string" THEN TypeError
            ELSE Then(UsableFoodNames(Tail(fs)), LAMBDA rest :
                    IF rest.t = "throw" THEN TypeError
                    ELSE IF Truthy(s) /\ Trim(s.s) # "" THEN Arr(<<s>> \o rest.a)
                    ELSE rest))

TitlesGenerated(self) == [self EXCEPT !.stats.titlesGenerated = @ + 1]

\* generateTitle without the test for a placeholder title.
GenerateTitleAnyTitle(self, meal, region, diet, index) ==
    Then(OrElse(Get(meal, "title"), OrElse(Get(meal, "name"), Str(""))), LAMBDA given :
    IF IsNullish(meal) \/ StringThrows(given) THEN [self |-> self, threw |-> TypeError]
    ELSE Then(Trim(JsString(given)), LAMBDA title :
    IF title # "" THEN [self |-> self, ret |-> title]
    ELSE Then(OrElse(Get(meal, "foods"), Arr(<<>>)), LAMBDA foods :
         Then(IF foods.t = "array" THEN UsableFoodNames(Slice0(foods.a, 3))
              ELSE Arr(<<>>),
              LAMBDA foodNames :
            IF foodNames.t = "throw" THEN [self |-> self, threw |-> TypeError]
            ELSE IF foodNames.a # <<>>
            THEN [self |-> TitlesGenerated(self),
                  ret |-> IF Len(foodNames.a) = 1 THEN foodNames.a[1].s
                          ELSE IF Len(foodNames.a) = 2
                               THEN foodNames.a[1].s \o " & " \o foodNames.a[2].s
                          ELSE foodNames.a[1].s \o ", " \o foodNames.a[2].s
                                  \o " & " \o foodNames.a[3].s]
            ELSE [self |-> TitlesGenerated(self),
                  ret |-> "Meal " \o region \o "-" \o diet \o "-" \o ToString(index)]))))

\* generateTitle without the "..." after six words of ingredients.
GenerateTitleNoEllipsis(self, meal, region, diet, index) ==
    Then(OrElse(Get(meal, "title"), OrElse(Get(meal, "name"), Str(""))), LAMBDA given :
    IF IsNullish(meal) \/ StringThrows(given) THEN [self |-> self, threw |-> TypeError]
    ELSE Then(Trim(JsString(given)), LAMBDA title :
    IF title # "" /\ ~IsPlaceholderTitle(title) THEN [self |-> self, ret |-> title]
    ELSE Then(OrElse(Get(meal, "foods"), Arr(<<>>)), LAMBDA foods :
         Then(IF foods.t = "array" THEN UsableFoodNames(Slice0(foods.a, 3))
              ELSE Arr(<<>>),
              LAMBDA foodNames :
            IF foodNames.t = "throw" THEN [self |-> self, threw |-> TypeError]
            ELSE IF foodNames.a # <<>>
            THEN [self |-> TitlesGenerated(self),
                  ret |-> IF Len(foodNames.a) = 1 THEN foodNames.a[1].s
                          ELSE IF Len(foodNames.a) = 2
                               THEN foodNames.a[1].s \o " & " \o foodNames.a[2].s
                          ELSE foodNames.a[1].s \o ", " \o foodNames.a[2].s
                                  \o " & " \o foodNames.a[3].s]
            ELSE Then(OrElse(Get(meal, "ingredients"), Str("")), LAMBDA ingredients :
                 Then(IF ingredients.t = "string"
                      THEN Slice0(SplitWs(Trim(ingredients.s)), 6) ELSE <<>>,
                      LAMBDA words :
                        IF Truthy(ingredients) /\ ingredients.t = "string" /\ words # <<>>
                        THEN [self |-> TitlesGenerated(self),
                              ret |-> Join(words, " ")]
                        ELSE [self |-> TitlesGenerated(self),
                              ret |-> "Meal " \o region \o "-" \o diet \o "-"
                                         \o ToString(index)]))))))

\* generateTitle(meal, region, diet, index); reading meal.title raises when
\* meal is null or undefined.
GenerateTitle(self, meal, region, diet, index) ==
    Then(OrElse(Get(meal, "title"), OrElse(Get(meal, "name"), Str(""))), LAMBDA given :
    IF IsNullish(meal) \/ StringThrows(given) THEN [self |-> self, threw |-> TypeError]
    ELSE Then(Trim(JsString(given)), LAMBDA title :
    IF title # "" /\ ~IsPlaceholderTitle(title) THEN [self |-> self, ret |-> title]
    ELSE Then(OrElse(Get(meal, "foods"), Arr(<<>>)), LAMBDA foods :
         Then(IF foods.t = "array" THEN UsableFoodNames(Slice0(foods.a, 3))
              ELSE Arr(<<>>),
              LAMBDA foodNames :
            IF foodNames.t = "throw" THEN [self |-> self, threw |-> TypeError]
            ELSE IF foodNames.a # <<>>
            THEN [self |-> TitlesGenerated(self),
                  ret |-> IF Len(foodNames.a) = 1 THEN foodNames.a[1].s
                          ELSE IF Len(foodNames.a) = 2
                               THEN foodNames.a[1].s \o " & " \o foodNames.a[2].s
                          ELSE foodNames.a[1].s \o ", " \o foodNames.a[2].s
                                  \o " & " \o foodNames.a[3].s]
            ELSE Then(OrElse(Get(meal, "ingredients"), Str("")), LAMBDA ingredients :
                 Then(IF ingredients.t = "string"
                      THEN Slice0(SplitWs(Trim(ingredients.s)), 6) ELSE <<>>,
                      LAMBDA words :
                        IF Truthy(ingredients) /\ ingredients.t = "string" /\ words # <<>>
                        THEN [self |-> TitlesGenerated(self),
                              ret |-> Join(words, " ") \o (IF Len(words) >= 6 THEN "..." ELSE "")]
                        ELSE [self |-> TitlesGenerated(self),
                              ret |-> "Meal " \o region \o "-" \o diet \o "-"
                                         \o ToString(index)]))))))

RECURSIVE NextFreeId(_, _)
\* while (this.usedIds.has(String(this.nextId))) this.nextId++
NextFreeId(usedIds, n) ==
    IF ToString(n) \in usedIds THEN NextFreeId(usedIds, n + 1) ELSE n

\* getUniqueId giving a generated id to every record, the id it carries
\* being recorded as reassigned.
GetUniqueIdFresh(self, originalId) ==
    LET present == ~IsNullish(originalId)
    IN IF present /\ StringThrows(originalId) THEN [self |-> self, threw |-> TypeError]
       ELSE Then(JsString(originalId), LAMBDA key :
            Then(NextFreeId(self.usedIds, self.nextId), LAMBDA n :
            Then(ToString(n), LAMBDA id :
                [self |-> [self EXCEPT
                             !.nextId = n + 1,
                             !.usedIds = @ \cup {id},
                             !.idReassignments =
                                 IF present THEN Put(@, key, id) ELSE @],
                 ret |-> id])))

\* getUniqueId without the while loop that skips ids already in use.
GetUniqueIdNoSkip(self, originalId) ==
    LET present == ~IsNullish(originalId)
    IN IF present /\ StringThrows(originalId) THEN [self |-> self, threw |-> TypeError]
       ELSE Then(JsString(originalId), LAMBDA key :
            IF present /\ key \notin self.usedIds
            THEN [self |-> [self EXCEPT !.usedIds = @ \cup {key}], ret |-> key]
            ELSE Then(self.nextId, LAMBDA n :
                 Then(ToString(n), LAMBDA id :
                    [self |-> [self EXCEPT
                                 !.stats.duplicateIds = IF present THEN @ + 1 ELSE @,
                                 !.nextId = n + 1,
                                 !.usedIds = @ \cup {id},
                                 !.idReassignments =
                                     IF present THEN Put(@, key, id) ELSE @],
                     ret |-> id])))

\* getUniqueId(originalId)
GetUniqueId(self, originalId) ==
    LET present == ~IsNullish(originalId)
    IN IF present /\ StringThrows(originalId) THEN [self |-> self, threw |-> TypeError]
       ELSE Then(JsString(originalId), LAMBDA key :
            IF present /\ key \notin self.usedIds
            THEN [self |-> [self EXCEPT !.usedIds = @ \cup {key}], ret |-> key]
            ELSE Then(NextFreeId(self.usedIds, self.nextId), LAMBDA n :
                 Then(ToString(n), LAMBDA id :
                    [self |-> [self EXCEPT
                                 !.stats.duplicateIds = IF present THEN @ + 1 ELSE @,
                                 !.nextId = n + 1,
                                 !.usedIds = @ \cup {id},
                                 !.idReassignments =
                                     IF present THEN Put(@, key, id) ELSE @],
                     ret |-> id])))

\* The name checkDietViolations takes from one entry of foods.
FoodCheckName(f) ==
    IF f.t = "string" THEN f
    ELSE IF Truthy(f) /\ Truthy(Get(f, "name")) THEN Get(f, "name")
    ELSE Str("")

\* textToCheck of checkDietViolations as a string value, or TypeError when
\* reading meal.title (meal null or undefined), a join or the template
\* string raises.
TextToCheck(meal) ==
    Then(OrElse(Get(meal, "title"), Str("")), LAMBDA title :
    Then(OrElse(Get(meal, "ingredients"), Str("")), LAMBDA ingredients :
    Then(Get(meal, "tags"), LAMBDA mtags :
    Then(Get(meal, "foods"), LAMBDA mfoods :
    Then(IF mfoods.t = "array"
         THEN [i \in DOMAIN mfoods.a |-> FoodCheckName(mfoods.a[i])] ELSE <<>>,
         LAMBDA names :
            IF \/ IsNullish(meal)
               \/ \E v \in {mtags, Arr(names), title, ingredients} : StringThrows(v)
            THEN TypeError
            ELSE Str(ToLowerCase(
                        Join(<<JsString(title), JsString(ingredients),
                               IF mtags.t = "array" THEN JoinValues(mtags.a, " ")
                               ELSE JsString(OrElse(mtags, Str(""))),
                               JoinValues(names, " ")>>, " "))))))))

\* checkDietViolations without the toLowerCase of the text.
CheckDietViolationsCased(meal, dietKey) ==
    LET mtags == Get(meal, "tags")
        mfoods == Get(meal, "foods")
        textToCheck ==
            JsString(OrElse(Get(meal, "title"), Str(""))) \o " "
              \o JsString(OrElse(Get(meal, "ingredients"), Str(""))) \o " "
              \o (IF mtags.t = "array" THEN JoinValues(mtags.a, " ")
                  ELSE JsString(OrElse(mtags, Str("")))) \o " "
              \o (IF mfoods.t = "array"
                  THEN JoinValues([i \in DOMAIN mfoods.a |-> FoodCheckName(mfoods.a[i])],
                                  " ")
                  ELSE "")
    IN IF TextToCheck(meal) = TypeError THEN TypeError
       ELSE IF dietKey = "Vegan"
       THEN SelectSeq(VEGAN_VIOLATIONS, LAMBDA v : Includes(textToCheck, v))
       ELSE IF dietKey = "Vegetarian"
       THEN SelectSeq(VEGETARIAN_VIOLATIONS, LAMBDA v : Includes(textToCheck, v))
       ELSE <<>>

\* checkDietViolations with the Vegetarian list applied under every diet
\* but Vegan.
CheckDietViolationsEveryDiet(meal, dietKey) ==
    LET Violations(textToCheck) ==
            IF textToCheck = TypeError THEN TypeError
            ELSE IF dietKey = "Vegan"
            THEN SelectSeq(VEGAN_VIOLATIONS, LAMBDA v : Includes(textToCheck.s, v))
            ELSE SelectSeq(VEGETARIAN_VIOLATIONS, LAMBDA v : Includes(textToCheck.s, v))
    IN Then(TextToCheck(meal), Violations)

\* checkDietViolations(meal, dietKey): the keywords of the diet's list, in
\* list order, that occur in the lower-cased text of the record; TypeError
\* when building the text raises.
CheckDietViolations(meal, dietKey) ==
    LET Violations(textToCheck) ==
            IF textToCheck = TypeError THEN TypeError
            ELSE IF dietKey = "Vegan"
            THEN SelectSeq(VEGAN_VIOLATIONS, LAMBDA v : Includes(textToCheck.s, v))
            ELSE IF dietKey = "Vegetarian"
            THEN SelectSeq(VEGETARIAN_VIOLATIONS, LAMBDA v : Includes(textToCheck.s, v))
            ELSE <<>>
    IN Then(TextToCheck(meal), Violations)

\* Object.keys(v)
Keys(v) ==
    CASE v.t = "object" -> DOMAIN v.o
      [] v.t = "array" -> {ToString(i - 1) : i \in DOMAIN v.a}
      [] v.t = "string" -> {ToString(i - 1) : i \in 1..Len(Units(v.s))}
      [] OTHER -> {}

\* The own enumerable properties { ...v } copies.
SpreadFields(v) ==
    CASE v.t = "object" -> v.o
      [] v.t = "array" -> [k \in {ToString(i - 1) : i \in DOMAIN v.a} |->
                              v.a[CHOOSE i \in DOMAIN v.a : ToString(i - 1) = k]]
      [] v.t = "string" ->
            Then(Units(v.s), LAMBDA u :
                [k \in {ToString(i - 1) : i \in DOMAIN u} |->
                    Str(u[CHOOSE i \in DOMAIN u : ToString(i - 1) = k])])
      [] OTHER -> EmptyFields

\* The diets array of normalizeMeal: the parent diet is included.
DietsWithParent(diets, dietKey) ==
    IF diets.t # "array" THEN Arr(<<Str(dietKey)>>)
    ELSE IF \A i \in DOMAIN diets.a : diets.a[i] # Str(dietKey)
         THEN Arr(<<Str(dietKey)>> \o diets.a)
    ELSE diets

\* The optional fields normalizeMeal copies when the input holds them, or
\* [threw |-> TypeError] when one of the String() calls raises.
OptionalFields(meal) ==
    Then(Get(meal, "serving_size"), LAMBDA serving_size :
    Then(Get(meal, "ingredients"), LAMBDA ingredients :
    Then(Get(meal, "tags"), LAMBDA tags :
    Then(Get(meal, "foods"), LAMBDA foods :
        IF \/ Truthy(serving_size) /\ StringThrows(serving_size)
           \/ Truthy(ingredients) /\ StringThrows(ingredients)
           \/ Truthy(tags) /\ tags.t # "array" /\ StringThrows(tags)
        THEN [threw |-> TypeError]
        ELSE Assign(
               Assign(IF Truthy(serving_size)
                      THEN [serving_size |-> Str(JsString(serving_size))]
                      ELSE EmptyFields,
                      IF Truthy(foods) THEN [foods |-> foods] ELSE EmptyFields),
               Assign(IF Truthy(ingredients)
                      THEN [ingredients |-> Str(JsString(ingredients))]
                      ELSE EmptyFields,
                      IF Truthy(tags)
                      THEN [tags |-> IF tags.t = "array" THEN tags
                                     ELSE Arr(<<Str(JsString(tags))>>)]
                      ELSE EmptyFields))))))

\* The nutrient fields of the object literal in normalizeMeal, in the order
\* their parseNumeric calls run, each with the input keys it reads (a ?? b ?? 0).
NUTRIENT_FIELDS ==
    <<[field |-> "calories", keys |-> <<"calories", "kcal", "calories_kcal">>],
      [field |-> "protein", keys |-> <<"protein", "prot">>],
      [field |-> "carbs", keys |-> <<"carbs", "carbohydrates", "carb">>],
      [field |-> "fat", keys |-> <<"fat", "fats">>],
      [field |-> "fiber", keys |-> <<"fiber", "fib">>]>>

RECURSIVE FirstPresent(_, _)
\* meal.k1 ?? meal.k2 ?? ... ?? 0
FirstPresent(meal, keys) ==
    IF keys = <<>> THEN Num(0)
    ELSE Coalesce(Get(meal, keys[1]), FirstPresent(meal, Tail(keys)))

RECURSIVE ParseNutrients(_, _, _, _)
\* The parseNumeric calls from field i on; acc is [self |-> the validator,
\* ret |-> the nutrient fields parsed so far].
ParseNutrients(acc, meal, mealId, i) ==
    IF i > Len(NUTRIENT_FIELDS) THEN acc
    ELSE Then(ParseNumeric(acc.self, FirstPresent(meal, NUTRIENT_FIELDS[i].keys),
                           NUTRIENT_FIELDS[i].field, mealId),
              LAMBDA p : ParseNutrients(
                             [self |-> p.self,
                              ret |-> Put(acc.ret, NUTRIENT_FIELDS[i].field, p.ret)],
                             meal, mealId, i + 1))

\* The counters normalizeMeal bumps before it allocates the id.
CountProcessed(self, meal) ==
    [self EXCEPT !.stats.totalProcessed = @ + 1,
                 !.stats.preparationFieldsRemoved =
                     IF \E k \in Keys(meal) : Includes(ToLowerCase(k), "preparation")
                     THEN @ + 1 ELSE @]

\* normalizeMeal(meal, regionKey, dietKey, mealTypeHint, index)
NormalizeMeal(self, meal, regionKey, dietKey, mealTypeHint, index) ==
    IF ~Truthy(meal) \/ ~IsObjectLike(meal) THEN [self |-> self, ret |-> Null]
    ELSE Try(GetUniqueId(CountProcessed(self, meal), Get(meal, "id")), LAMBDA uid :
         Then(NormalizeMealType(OrElse(Get(meal, "mealType"), mealTypeHint),
                                OrElse(Get(meal, "title"), Str("")),
                                OrElse(Get(meal, "tags"), Arr(<<>>))),
              LAMBDA mealType :
         IF mealType = TypeError THEN [self |-> uid.self, threw |-> TypeError]
         ELSE Try(GenerateTitle(uid.self, meal, regionKey, dietKey, index), LAMBDA ttl :
              Then(ParseNutrients([self |-> ttl.self, ret |-> EmptyFields],
                                  meal, Str(uid.ret), 1),
                   LAMBDA nutrients :
              Then(OptionalFields(meal), LAMBDA optional :
                 IF Threw(optional) THEN [self |-> nutrients.self, threw |-> TypeError]
                 ELSE [self |-> nutrients.self,
                       ret |-> Obj(Assign(Assign([id |-> Str(uid.ret),
                                                  title |-> Str(ttl.ret),
                                                  mealType |-> mealType,
                                                  region |-> Str(regionKey),
                                                  diets |-> DietsWithParent(
                                                               Get(meal, "diets"),
                                                               dietKey)],
                                                 nutrients.ret),
                                          optional))])))))

\* optionMeal without the `${optionMeal.id}_${i}` suffix.
OptionMealSameId(base, opt, i) ==
    Then(SpreadFields(opt), LAMBDA fields :
    Then(IF opt.t = "string" THEN Obj(Put(base, "title", opt))
         ELSE IF ~Truthy(opt) \/ ~IsObjectLike(opt) THEN Obj(base)
         ELSE IF "__proto__" \notin DOMAIN fields \/ "__proto__" \in DOMAIN base
         THEN Obj(Assign(base, fields))
         ELSE IF fields["__proto__"].t = "object"
         THEN [t |-> "object", o |-> Assign(base, Delete(fields, "__proto__")),
               proto |-> fields["__proto__"]]
         ELSE Obj(Assign(base, Delete(fields, "__proto__"))),
         LAMBDA assigned :
            assigned))

\* optionMeal of flattenOptions for option opt at index i of the parent
\* base, as it is passed to normalizeMeal, or TypeError when the template
\* string of the id raises.  Object.assign sets the keys of opt one by one:
\* a key __proto__ that optionMeal does not hold as its own key goes to the
\* setter of Object.prototype, which makes an object the prototype of
\* optionMeal (the keys the program reads are then read through it), and
\* adds no own key (null and an array as prototype bring none of the keys
\* the program reads; any other value is ignored).
OptionMeal(base, opt, i) ==
    Then(SpreadFields(opt), LAMBDA fields :
    Then(IF opt.t = "string" THEN Obj(Put(base, "title", opt))
         ELSE IF ~Truthy(opt) \/ ~IsObjectLike(opt) THEN Obj(base)
         ELSE IF "__proto__" \notin DOMAIN fields \/ "__proto__" \in DOMAIN base
         THEN Obj(Assign(base, fields))
         ELSE IF fields["__proto__"].t = "object"
         THEN [t |-> "object", o |-> Assign(base, Delete(fields, "__proto__")),
               proto |-> fields["__proto__"]]
         ELSE Obj(Assign(base, Delete(fields, "__proto__"))),
         LAMBDA assigned :
            IF ~Truthy(Get(assigned, "id")) THEN assigned
            ELSE IF StringThrows(Get(assigned, "id")) THEN TypeError
            ELSE [assigned EXCEPT
                    !.o = Put(@, "id", Str(JsString(Get(assigned, "id")) \o "_"
                                              \o ToString(i)))]))

\* out.push(normalized) when normalizeMeal returned a record; n is the
\* [self, ret] outcome of normalizeMeal.
Pushed(out, n) ==
    [self |-> n.self, ret |-> IF n.ret # Null THEN Append(out, n.ret) ELSE out]

RECURSIVE FlattenLoop(_, _, _, _, _, _, _)
\* The for loop of flattenOptions from index i on; acc is [self |-> the
\* validator, ret |-> the records normalized so far].
FlattenLoop(acc, base, options, i, regionKey, dietKey, mealTypeHint) ==
    IF i >= Len(options) THEN acc
    ELSE Then(OptionMeal(base, options[i + 1], i), LAMBDA optionMeal :
         IF optionMeal = TypeError THEN [self |-> acc.self, threw |-> TypeError]
         ELSE Try(NormalizeMeal(acc.self, optionMeal, regionKey, dietKey,
                                mealTypeHint, i),
                  LAMBDA n : FlattenLoop(Pushed(acc.ret, n), base, options, i + 1,
                                         regionKey, dietKey, mealTypeHint)))

\* flattenOptions with an empty options array taken as no options array.
FlattenOptionsEmptyAsSingle(self, meal, regionKey, dietKey, mealTypeHint) ==
    LET options == Get(meal, "options")
    IN IF IsNullish(meal) THEN [self |-> self, threw |-> TypeError]
       ELSE IF ~Truthy(options) \/ options.t # "array" \/ options.a = <<>>
       THEN Try(NormalizeMeal(self, meal, regionKey, dietKey, mealTypeHint, 0),
                LAMBDA single : Pushed(<<>>, single))
       ELSE FlattenLoop([self |-> [self EXCEPT !.stats.optionsFlattened = @ + 1],
                         ret |-> <<>>],
                        Delete(SpreadFields(meal), "options"), options.a, 0,
                        regionKey, dietKey, mealTypeHint)

\* flattenOptions(meal, regionKey, dietKey, mealTypeHint); reading
\* meal.options raises when meal is null or undefined.
FlattenOptions(self, meal, regionKey, dietKey, mealTypeHint) ==
    LET options == Get(meal, "options")
    IN IF IsNullish(meal) THEN [self |-> self, threw |-> TypeError]
       ELSE IF ~Truthy(options) \/ options.t # "array"
       THEN Try(NormalizeMeal(self, meal, regionKey, dietKey, mealTypeHint, 0),
                LAMBDA single : Pushed(<<>>, single))
       ELSE FlattenLoop([self |-> [self EXCEPT !.stats.optionsFlattened = @ + 1],
                         ret |-> <<>>],
                        Delete(SpreadFields(meal), "options"), options.a, 0,
                        regionKey, dietKey, mealTypeHint)

(***************************************************************************)
(* validateAndFix: the catalog and the traversal.                          *)
(* A document is the sequence of the [k, v] entries Object.entries gives   *)
(* (key order matters to the traversal); the value of a region entry is    *)
(* the sequence of its diet entries; the value of a diet entry is either   *)
(* an array of meal entries or an object keyed by meal type, kept as the   *)
(* sequence of its [k, v] entries.                                         *)
(***************************************************************************)
Keyed(entries) == [t |-> "object", entries |-> entries]

\* cleanedData initialised for the synonyms of REGION_MAPPING as well.
EmptyCatalogWithSynonyms ==
    [r \in Range(CANONICAL_REGIONS) \cup DOMAIN REGION_MAPPING |->
        [d \in Range(CANONICAL_DIETS) |->
            [mt \in Range(CANONICAL_MEAL_TYPES) |-> <<>>]]]

\* cleanedData as initialised at the top of validateAndFix.
EmptyCatalog ==
    [r \in Range(CANONICAL_REGIONS) |->
        [d \in Range(CANONICAL_DIETS) |->
            [mt \in Range(CANONICAL_MEAL_TYPES) |-> <<>>]]]

\* The region loop header with the __meta__ entry read as a region, India,
\* instead of skipped.
RegionHeaderMetaRead(self, origRegion) ==
    LET mapped == MapOrSelf(REGION_MAPPING, origRegion)
        regionKey == IF origRegion = "__meta__" THEN Str("India") ELSE mapped
    IN IF regionKey.t # "string" \/ regionKey.s \notin Range(CANONICAL_REGIONS)
       THEN [self |-> self, regionKey |-> regionKey, skip |-> TRUE]
       ELSE [self |-> IF origRegion # regionKey.s
                      THEN [self EXCEPT !.regionMappings = Put(@, origRegion, regionKey.s),
                                        !.stats.regionMappings = @ + 1]
                      ELSE self,
             regionKey |-> regionKey, skip |-> FALSE]

\* The region loop header with a region of unknown key read as India, and
\* recorded as mapped, instead of skipped.
RegionHeaderRouted(self, origRegion) ==
    LET mapped == MapOrSelf(REGION_MAPPING, origRegion)
        regionKey == IF mapped.t = "string" /\ mapped.s \in Range(CANONICAL_REGIONS)
                     THEN mapped ELSE Str("India")
    IN IF origRegion = "__meta__"
       THEN [self |-> self, regionKey |-> regionKey, skip |-> TRUE]
       ELSE [self |-> IF origRegion # regionKey.s
                      THEN [self EXCEPT !.regionMappings = Put(@, origRegion, regionKey.s),
                                        !.stats.regionMappings = @ + 1]
                      ELSE self,
             regionKey |-> regionKey, skip |-> FALSE]

\* Region loop header: [self, regionKey, skip]; regionKey is the value of
\* REGION_MAPPING[origRegion] || origRegion, a string value when the entry is
\* not skipped.
RegionHeader(self, origRegion) ==
    LET regionKey == MapOrSelf(REGION_MAPPING, origRegion)
    IN IF \/ origRegion = "__meta__"
          \/ regionKey.t # "string" \/ regionKey.s \notin Range(CANONICAL_REGIONS)
       THEN [self |-> self, regionKey |-> regionKey, skip |-> TRUE]
       ELSE [self |-> IF origRegion # regionKey.s
                      THEN [self EXCEPT !.regionMappings = Put(@, origRegion, regionKey.s),
                                        !.stats.regionMappings = @ + 1]
                      ELSE self,
             regionKey |-> regionKey, skip |-> FALSE]

\* Diet loop header: [self, dietKey].  The two assignments to
\* this.dietMappings[origDiet] add no key for the diet key __proto__ (Put).
DietHeader(self, origDiet) ==
    LET mapped == MapOrSelf(DIET_MAPPING, origDiet)
        known == mapped.t = "string" /\ mapped.s \in Range(CANONICAL_DIETS)
        dietKey == IF known THEN mapped.s ELSE "Regular"
        s1 == IF known THEN self
              ELSE [self EXCEPT !.dietMappings = Put(@, origDiet, "Regular")]
    IN [self |-> IF origDiet # dietKey
                 THEN [s1 EXCEPT !.dietMappings = Put(@, origDiet, dietKey),
                                 !.stats.dietMappings = @ + 1]
                 ELSE s1,
        dietKey |-> dietKey]

\* The copies of the entries under a key, with no hint taken from the key.
HintedCopiesNoHint(k, v) ==
    [i \in DOMAIN v |-> Obj(Put(SpreadFields(v[i]), "_mealTypeHint", Null))]

\* v.map(m => ({ ...m, _mealTypeHint: CANONICAL_MEAL_TYPES.includes(k) ? k : null }))
HintedCopies(k, v) ==
    [i \in DOMAIN v |->
        Obj(Put(SpreadFields(v[i]), "_mealTypeHint",
                IF k \in Range(CANONICAL_MEAL_TYPES) THEN Str(k) ELSE Null))]

RECURSIVE KeyedMeals(_)
KeyedMeals(entries) ==
    IF entries = <<>> THEN <<>>
    ELSE (IF entries[1].v.t = "array" THEN HintedCopies(entries[1].k, entries[1].v.a)
          ELSE <<>>) \o KeyedMeals(Tail(entries))

\* allMeals: the flat list of meal entries of one diet bucket.
AllMeals(dietData) ==
    IF dietData.t = "array" THEN dietData.a
    ELSE IF dietData.t = "object" THEN KeyedMeals(dietData.entries)
    ELSE <<>>

\* The target diet with `some` in place of `every` in the dairy/egg test.
TargetDietSome(dietKey, violations) ==
    IF dietKey = "Vegan"
    THEN IF \E i \in DOMAIN violations : violations[i] \in DAIRY_EGG_TERMS
         THEN "Vegetarian" ELSE "Regular"
    ELSE IF dietKey = "Vegetarian" THEN "Regular"
    ELSE dietKey

\* The diet a record with these violations is placed under.
TargetDiet(dietKey, violations) ==
    IF dietKey = "Vegan"
    THEN IF \A i \in DOMAIN violations : violations[i] \in DAIRY_EGG_TERMS
         THEN "Vegetarian" ELSE "Regular"
    ELSE IF dietKey = "Vegetarian" THEN "Regular"
    ELSE dietKey

\* A reclassification that leaves normalizedMeal.diets as it was.
ReclassifiedDietsKept(diets, targetDiet) == diets

\* A reclassification that puts targetDiet after the diets the record
\* has, when it is not among them.
ReclassifiedDietsAppended(diets, targetDiet) ==
    IF diets.t # "array" THEN Arr(<<Str(targetDiet)>>)
    ELSE IF \E i \in DOMAIN diets.a : diets.a[i] = Str(targetDiet) THEN diets
    ELSE Arr(Append(diets.a, Str(targetDiet)))

\* normalizedMeal.diets after a reclassification to targetDiet.
ReclassifiedDiets(diets, targetDiet) ==
    Arr(<<Str(targetDiet)>> \o
        (IF diets.t = "array"
         THEN SelectSeq(diets.a, LAMBDA d : d # Str(targetDiet)) ELSE <<>>))

\* The violation check of one normalized record under dietKey: the
\* violations found, the diet it goes to, and the record as it is stored
\* (its diets rewritten when it is reclassified); [threw |-> TypeError]
\* when checkDietViolations raises.
Reclassify(normalizedMeal, dietKey) ==
    LET Verdict(violations) ==
            IF violations # <<>>
            THEN LET targetDiet == TargetDiet(dietKey, violations)
                 IN [violations |-> violations,
                     targetDiet |-> targetDiet,
                     normalizedMeal |->
                        Obj(Put(normalizedMeal.o, "diets",
                                ReclassifiedDiets(Get(normalizedMeal, "diets"),
                                                  targetDiet)))]
            ELSE [violations |-> violations, targetDiet |-> dietKey,
                  normalizedMeal |-> normalizedMeal]
    IN Then(TextToCheck(normalizedMeal),
            LAMBDA textToCheck :
                IF textToCheck = TypeError THEN [threw |-> TypeError]
                ELSE Then(CheckDietViolations(normalizedMeal, dietKey), Verdict))

\* One iteration of the loop over flattened; rs is [self |-> the validator,
\* cleanedData |-> the catalog under construction].  An exception leaves
\* the loops: the catalog under construction is lost.
PlaceMeal(rs, normalizedMeal, regionKey, dietKey) ==
    Then(Reclassify(normalizedMeal, dietKey), LAMBDA v :
    IF Threw(v) THEN [self |-> rs.self, threw |-> TypeError]
    ELSE Then([id |-> normalizedMeal.o.id, title |-> normalizedMeal.o.title,
               offending |-> v.violations, movedTo |-> v.targetDiet],
              LAMBDA entry :
         Then(JsString(OrElse(Get(normalizedMeal, "mealType"), Str("lunch"))),
              LAMBDA mt :
            [self |->
                IF v.violations # <<>> /\ dietKey = "Vegan"
                THEN [rs.self EXCEPT !.stats.veganViolations = Append(@, entry)]
                ELSE IF v.violations # <<>> /\ dietKey = "Vegetarian"
                THEN [rs.self EXCEPT !.stats.vegetarianViolations = Append(@, entry)]
                ELSE rs.self,
             cleanedData |->
                [rs.cleanedData EXCEPT ![regionKey][v.targetDiet][mt] =
                    Append(@, v.normalizedMeal)]])))

RECURSIVE PlaceAll(_, _, _, _)
PlaceAll(rs, flattened, regionKey, dietKey) ==
    IF flattened = <<>> THEN rs
    ELSE Try(PlaceMeal(rs, flattened[1], regionKey, dietKey),
             LAMBDA placed : PlaceAll(placed, Tail(flattened), regionKey, dietKey))

\* The entry of allMeals after `delete meal._mealTypeHint`.
WithoutHint(meal) ==
    IF meal.t = "object" THEN Obj(Delete(meal.o, "_mealTypeHint")) ELSE meal

\* One iteration of the loop over allMeals.
ProcessMeal(rs, meal, regionKey, dietKey) ==
    IF ~Truthy(meal) \/ ~IsObjectLike(meal) THEN rs
    ELSE LET Place(flattened) ==
                 PlaceAll([self |-> flattened.self, cleanedData |-> rs.cleanedData],
                          flattened.ret, regionKey, dietKey)
         IN Try(FlattenOptions(rs.self, WithoutHint(meal), regionKey, dietKey,
                               Get(meal, "_mealTypeHint")),
                Place)

RECURSIVE ProcessMeals(_, _, _, _)
ProcessMeals(rs, allMeals, regionKey, dietKey) ==
    IF allMeals = <<>> THEN rs
    ELSE Try(ProcessMeal(rs, allMeals[1], regionKey, dietKey),
             LAMBDA after : ProcessMeals(after, Tail(allMeals), regionKey, dietKey))

\* One iteration of the loop over the diet entries of a region.
ProcessDiet(rs, dietEntry, regionKey) ==
    Then(DietHeader(rs.self, dietEntry.k),
         LAMBDA h : ProcessMeals([self |-> h.self, cleanedData |-> rs.cleanedData],
                                 AllMeals(dietEntry.v), regionKey, h.dietKey))

RECURSIVE ProcessDiets(_, _, _)
ProcessDiets(rs, dietEntries, regionKey) ==
    IF dietEntries = <<>> THEN rs
    ELSE Try(ProcessDiet(rs, dietEntries[1], regionKey),
             LAMBDA after : ProcessDiets(after, Tail(dietEntries), regionKey))

\* One iteration of the loop over the region entries of the document.
ProcessRegion(rs, regionEntry) ==
    Then(RegionHeader(rs.self, regionEntry.k),
         LAMBDA h : IF h.skip THEN rs
                    ELSE ProcessDiets([self |-> h.self, cleanedData |-> rs.cleanedData],
                                      regionEntry.v, h.regionKey.s))

RECURSIVE ProcessRegions(_, _)
ProcessRegions(rs, regionEntries) ==
    IF regionEntries = <<>> THEN rs
    ELSE Try(ProcessRegion(rs, regionEntries[1]),
             LAMBDA after : ProcessRegions(after, Tail(regionEntries)))

RECURSIVE SumLengths(_)
SumLengths(seqs) ==
    IF seqs = <<>> THEN 0 ELSE Len(seqs[1]) + SumLengths(Tail(seqs))

\* totalAfter counted over the diets records come under and are not moved
\* to: the leaves of Regular are left out.
TotalAfterNoRegular(cleanedData) ==
    LET R == CANONICAL_REGIONS  D == Tail(CANONICAL_DIETS)  M == CANONICAL_MEAL_TYPES
        perDiet(r, d) == SumLengths([m \in DOMAIN M |-> cleanedData[r][d][M[m]]])
        RECURSIVE sumD(_, _)
        sumD(r, i) == IF i > Len(D) THEN 0 ELSE perDiet(r, D[i]) + sumD(r, i + 1)
        RECURSIVE sumR(_)
        sumR(i) == IF i > Len(R) THEN 0 ELSE sumD(R[i], 1) + sumR(i + 1)
    IN sumR(1)

\* totalAfter: the number of records in the leaves of the catalog.
TotalAfter(cleanedData) ==
    LET R == CANONICAL_REGIONS  D == CANONICAL_DIETS  M == CANONICAL_MEAL_TYPES
        perDiet(r, d) == SumLengths([m \in DOMAIN M |-> cleanedData[r][d][M[m]]])
        RECURSIVE sumD(_, _)
        sumD(r, i) == IF i > Len(D) THEN 0 ELSE perDiet(r, D[i]) + sumD(r, i + 1)
        RECURSIVE sumR(_)
        sumR(i) == IF i > Len(R) THEN 0 ELSE sumD(R[i], 1) + sumR(i + 1)
    IN sumR(1)

\* The changes list of the metadata block.
MetaChanges(self) ==
    <<"Processed " \o ToString(self.stats.totalProcessed) \o " meals",
      "Reassigned " \o ToString(self.stats.duplicateIds) \o " duplicate IDs",
      "Generated " \o ToString(self.stats.titlesGenerated) \o " missing titles",
      "Mapped " \o ToString(self.stats.regionMappings) \o " regions",
      "Mapped " \o ToString(self.stats.dietMappings) \o " diets",
      "Removed " \o ToString(self.stats.preparationFieldsRemoved) \o " preparation fields",
      "Flattened " \o ToString(self.stats.optionsFlattened) \o " options arrays",
      "Moved " \o ToString(Len(self.stats.veganViolations)) \o " meals from Vegan",
      "Moved " \o ToString(Len(self.stats.vegetarianViolations))
            \o " meals from Vegetarian">>

\* cleanedData.__meta__ ; now is the value read from the clock.
BuildMeta(self, cleanedData, now) ==
    [fixed_on |-> now,
     script_version |-> "tools-1.0.0",
     changes |-> MetaChanges(self),
     id_reassignments |-> self.idReassignments,
     region_mappings |-> self.regionMappings,
     diet_mappings |-> self.dietMappings,
     summary |-> [totalBefore |-> self.stats.totalProcessed,
                  totalAfter |-> TotalAfter(cleanedData)]]

\* cleanedData.__meta__ = {...}
WithMeta(cleanedData, meta) == Assign(cleanedData, [__meta__ |-> meta])

\* validateAndFix(inputData) on validator self, the clock reading now:
\* [self |-> the validator after the call, ret |-> the returned catalog], or
\* [self, threw] when a record makes one of the methods raise.
ValidateAndFix(self, document, now) ==
    LET Returned(rs) ==
            [self |-> rs.self,
             ret |-> WithMeta(rs.cleanedData, BuildMeta(rs.self, rs.cleanedData, now))]
    IN Try(ProcessRegions([self |-> self, cleanedData |-> EmptyCatalog], document),
           Returned)

\* Object.entries of an emitted catalog, as a document to read again.
DocumentOf(cleaned) ==
    [i \in 1..(Len(CANONICAL_REGIONS) + 1) |->
        IF i > Len(CANONICAL_REGIONS) THEN [k |-> "__meta__", v |-> <<>>]
        ELSE [k |-> CANONICAL_REGIONS[i],
              v |-> [j \in DOMAIN CANONICAL_DIETS |->
                       [k |-> CANONICAL_DIETS[j],
                        v |-> Keyed([m \in DOMAIN CANONICAL_MEAL_TYPES |->
                                 [k |-> CANONICAL_MEAL_TYPES[m],
                                  v |-> Arr(cleaned[CANONICAL_REGIONS[i]]
                                                   [CANONICAL_DIETS[j]]
                                                   [CANONICAL_MEAL_TYPES[m]])]])]]]]

(***************************************************************************)
(* The input space: the meal entries and the raw keys a document may hold. *)
(***************************************************************************)
RiceBowl ==
    Obj([id |-> Num(7), title |-> Str("Rice Bowl"), calories |-> Num(250),
         protein |-> Str("12.5g"), diets |-> Arr(<<Str("Vegan")>>)])

OptionPlate ==
    Obj([id |-> Str("7"), title |-> Str("Option 1"),
         foods |-> Arr(<<Str("Rice"), Obj([name |-> Str("Bacon")])>>),
         options |-> Arr(<<Str("Dal"), Obj([title |-> Str("Soup"), calories |-> Str("-5")])>>)])

MilkSalmon ==
    Obj([title |-> Str("Milk Salmon Bowl"), tags |-> Str("quick")])

ChickenStock ==
    Obj([id |-> Str("100000"), title |-> Str("Paneer"),
         ingredients |-> Str("Milk CHICKEN stock"), carbs |-> Str("abc")])

BlankIngredients ==
    Obj([id |-> Str("7_0"), ingredients |-> Str("   "), fat |-> Num(-3),
         fiber |-> Str("-2.5g"), tags |-> Arr(<<Str("Tuna")>>)])

FishCurry ==
    Obj([id |-> Str("8"), name |-> Str("Fish Curry"), mealType |-> Str("Supper"),
         kcal |-> Str("1,200 kcal"), fiber |-> Null, diets |-> Arr(<<Str("Regular")>>)])

\* A record whose options array is empty.
EmptyOptions == Obj([id |-> Str("7"), title |-> Str("Thali"), options |-> Arr(<<>>)])

\* A record with an id and nothing else but options that are placeholder
\* titles.
BareOptions ==
    Obj([id |-> Str("7"), options |-> Arr(<<Str("Option 1"), Str("Option 2")>>)])

\* A record with a name and foods, and options that are a title with white
\* space around it, the empty string, a blank string and a placeholder.
NamedOptions ==
    Obj([id |-> Str("9"), name |-> Str("Thali"),
         foods |-> Arr(<<Str("Rice"), Str("Dal")>>),
         options |-> Arr(<<Str(" Dal "), Str(""), Str("  "), Str("option 3")>>)])

\* A record that carries a _mealTypeHint field of its own.
HintedToast ==
    Obj([title |-> Str("Plain Rice"), _mealTypeHint |-> Str("dinner")])

\* A record whose first food has a number for its name, under a placeholder
\* title: generateTitle calls trim on the number.
NumberedFood ==
    Obj([title |-> Str("Option 1"), foods |-> Arr(<<Obj([name |-> Num(5)])>>)])

\* A record with a title and a meal type of its own and a tag that is an
\* object with a key toString, as JSON.parse gives it: the tags are first
\* joined by checkDietViolations.
UnprintableTag ==
    Obj([title |-> Str("Dal"), mealType |-> Str("lunch"),
         tags |-> Arr(<<Obj([toString |-> Str("x")])>>)])

\* A record with an option that has a key __proto__, as JSON.parse gives it.
ProtoOption ==
    Obj([id |-> Str("5"), title |-> Str("Plate"),
         options |-> Arr(<<Obj([k \in {"__proto__"} |->
                                  Obj([calories |-> Num(500),
                                       title |-> Str("Ghost")])])>>)])

\* A record under Unicode: the K of its title is the Kelvin sign U+212A,
\* which toLowerCase turns into k; a no-break space ends the title and an
\* ideographic space begins the meal type.
KelvinShake ==
    Obj([id |-> Num(1), title |-> Str("MIL\\u212a shake\\u00a0"),
         mealType |-> Str("\\u3000supper")])

\* What an entry of the document that the traversal skips holds: a diet
\* bucket with a record, as a region would.
SkippedData == {<<[k |-> "Vegan", v |-> Arr(<<RiceBowl>>)]>>}

\* The families of input documents.  Each family varies one part of a
\* document: its region keys (canonical, synonym, unknown, the metadata
\* key), its diet keys (canonical, synonym, unknown), the keys of a bucket
\* given as an object (a canonical meal type, another key), or its entries
\* (records and stray non-objects, records that make a method raise, a
\* record written with characters outside ASCII).  keyed tells whether the
\* diet buckets are objects keyed by meal type or arrays; skipped is what the value of a
\* region entry the traversal skips may hold.
Corpora ==
    [regions |-> [regionKeys |-> {"India", "Oceania", "Atlantis", "__meta__"},
                  dietKeys |-> {"Vegan"}, keyed |-> {FALSE}, bucketKeys |-> {""},
                  entries |-> {RiceBowl, Str("note")}, skipped |-> SkippedData],
     diets   |-> [regionKeys |-> {"India"},
                  dietKeys |-> {"Vegan", "Vegetarian", "Ketogenic", "Paleo"},
                  keyed |-> {FALSE}, bucketKeys |-> {""},
                  entries |-> {MilkSalmon}, skipped |-> {<<>>}],
     buckets |-> [regionKeys |-> {"India"}, dietKeys |-> {"Vegetarian"},
                  keyed |-> {TRUE}, bucketKeys |-> {"dinner", "misc"},
                  entries |-> {RiceBowl, OptionPlate, FishCurry, Null, Str("note")},
                  skipped |-> {<<>>}],
     records |-> [regionKeys |-> {"India"}, dietKeys |-> {"Vegan", "Vegetarian"},
                  keyed |-> {FALSE}, bucketKeys |-> {""},
                  entries |-> {RiceBowl, OptionPlate, MilkSalmon, ChickenStock,
                               BlankIngredients, FishCurry},
                  skipped |-> {<<>>}],
     options |-> [regionKeys |-> {"India"}, dietKeys |-> {"Vegan"},
                  keyed |-> {FALSE}, bucketKeys |-> {""},
                  entries |-> {BareOptions, NamedOptions}, skipped |-> {<<>>}],
     hints   |-> [regionKeys |-> {"India"}, dietKeys |-> {"Regular"},
                  keyed |-> {FALSE, TRUE}, bucketKeys |-> {"", "snacks"},
                  entries |-> {HintedToast, RiceBowl, EmptyOptions}, skipped |-> {<<>>}],
     faults  |-> [regionKeys |-> {"India", "constructor"},
                  dietKeys |-> {"Vegan", "__proto__"},
                  keyed |-> {FALSE}, bucketKeys |-> {""},
                  entries |-> {RiceBowl, NumberedFood, UnprintableTag, ProtoOption,
                               KelvinShake},
                  skipped |-> {<<>>}]]

\* Readings of the clock (new Date().toISOString()), in time order.
Timestamps == <<"2025-01-01T00:00:00.000Z", "2025-01-01T00:00:00.001Z">>

(***************************************************************************)
(* State                                                                   *)
(***************************************************************************)
VARIABLES
    corpus,         \* the family of documents the input is drawn from
    inputJson,      \* the document as parsed from the input file, as far as read
    inputData,      \* the same document in memory, as the run leaves it
    validator,      \* the MealValidator object
    cleanedData,    \* the catalog under construction, then the returned catalog
    pc,             \* where validateAndFix stands ("thrown": it raised an exception)
    regionKey,      \* canonical region of the current region entry
    dietKey,        \* canonical diet of the current diet entry
    flattened,      \* what flattenOptions returned for the current entry
    flatIndex,      \* how many records of flattened the inner loop has taken
    normalizedMeal, \* the inner loop's record, as placed (Null outside the loop)
    violations,     \* the violations found for normalizedMeal
    targetDiet,     \* the diet normalizedMeal was placed under
    clock,          \* index into Timestamps of the current time
    second,         \* what a second call of validateAndFix returned
    call,           \* the last method called on the validator directly
    cli             \* the process running main: arguments, files, exit code

vars == <<corpus, inputJson, inputData, validator, cleanedData, pc, regionKey, dietKey,
          flattened, flatIndex, normalizedMeal, violations, targetDiet, clock, second,
          call, cli>>

Last(seq) == seq[Len(seq)]

RECURSIVE EntryCount(_)
\* Number of meal entries in a document.
EntryCount(doc) ==
    IF doc = <<>> THEN 0
    ELSE LET diets == doc[1].v
             count(d) == IF d.v.t = "array" THEN Len(d.v.a)
                         ELSE SumLengths([i \in DOMAIN d.v.entries |-> d.v.entries[i].v.a])
         IN SumLengths([i \in DOMAIN diets |-> [j \in 1..count(diets[i]) |-> j]])
                + EntryCount(Tail(doc))

\* The diet bucket being read: the value of the last diet entry.
CurrentBucket(doc) == Last(Last(doc).v).v

\* The document with entry m added to the bucket being read, under key k
\* when the bucket is an object keyed by meal type.
WithEntry(doc, k, m) ==
    LET r == Len(doc)
        d == Len(doc[r].v)
        b == doc[r].v[d].v
    IN IF b.t = "array"
       THEN [doc EXCEPT ![r].v[d].v.a = Append(@, m)]
       ELSE IF b.entries # <<>> /\ Last(b.entries).k = k
       THEN [doc EXCEPT ![r].v[d].v.entries[Len(b.entries)].v.a = Append(@, m)]
       ELSE [doc EXCEPT ![r].v[d].v.entries = Append(@, [k |-> k, v |-> Arr(<<m>>)])]

\* The element of allMeals the last entry read stands for: under a keyed
\* bucket, the hinted copy of the entry.
CurrentMeal(doc) ==
    LET b == CurrentBucket(doc)
    IN IF b.t = "array" THEN Last(b.a)
       ELSE HintedCopies(Last(b.entries).k, <<Last(Last(b.entries).v.a)>>)[1]

Init ==
    /\ corpus \in DOMAIN Corpora
    /\ inputJson = <<>>
    /\ inputData = <<>>
    /\ validator = NewValidator
    /\ cleanedData = EmptyCatalog
    /\ pc = "regions"
    /\ regionKey = ""
    /\ dietKey = ""
    /\ flattened = <<>>
    /\ flatIndex = 0
    /\ normalizedMeal = Null
    /\ violations = <<>>
    /\ targetDiet = ""
    /\ clock = 1
    /\ second = Null
    /\ call = Null
    /\ cli = Null

Reading == pc \in {"regions", "diets", "meals"}

\* The locals of the loops over allMeals and flattened, out of scope.
NoMeal ==
    /\ flattened' = <<>>
    /\ flatIndex' = 0
    /\ normalizedMeal' = Null
    /\ violations' = <<>>
    /\ targetDiet' = ""

\* The next entry of Object.entries(inputData): a region key not read yet.
\* The value of an entry the loop skips is regionData, which is never read;
\* the value of any other entry is read diet by diet by the steps below.
RegionStep(origRegion, regionData) ==
    /\ Reading
    /\ \A i \in DOMAIN inputJson : inputJson[i].k # origRegion
    /\ \E h \in {RegionHeader(validator, origRegion)} :
          /\ validator' = h.self
          /\ regionKey' = IF h.skip THEN "" ELSE h.regionKey.s
          /\ pc' = IF h.skip THEN "regions" ELSE "diets"
          /\ \E entry \in {[k |-> origRegion,
                              v |-> IF h.skip THEN regionData ELSE <<>>]} :
                /\ inputJson' = Append(inputJson, entry)
                /\ inputData' = Append(inputData, entry)
    /\ dietKey' = ""
    /\ NoMeal
    /\ UNCHANGED <<corpus, cleanedData, clock, second, call, cli>>

\* The next entry of Object.entries(regionData): a diet key not read yet in
\* this region, whose value is an array (keyed = FALSE) or an object.
DietStep(origDiet, keyed) ==
    /\ pc \in {"diets", "meals"}
    /\ \A i \in DOMAIN Last(inputJson).v : Last(inputJson).v[i].k # origDiet
    /\ \E h \in {DietHeader(validator, origDiet)},
          entry \in {[k |-> origDiet, v |-> IF keyed THEN Keyed(<<>>) ELSE Arr(<<>>)]} :
          /\ validator' = h.self
          /\ dietKey' = h.dietKey
          /\ inputJson' = [inputJson EXCEPT ![Len(inputJson)].v = Append(@, entry)]
          /\ inputData' = [inputData EXCEPT ![Len(inputData)].v = Append(@, entry)]
    /\ pc' = "meals"
    /\ NoMeal
    /\ UNCHANGED <<corpus, cleanedData, regionKey, clock, second, call, cli>>

\* The next element of allMeals: entry m of the bucket (under key k of a
\* keyed bucket), up to the call of flattenOptions.  When the call raises,
\* validateAndFix is left with the exception: nothing is returned.
MealStep(m, k) ==
    /\ pc = "meals"
    /\ EntryCount(inputJson) < MaxMeals
    /\ LET bucket == CurrentBucket(inputJson)
           isKeyed == bucket.t = "object"
           meal == IF isKeyed THEN HintedCopies(k, <<m>>)[1] ELSE m
       IN /\ isKeyed => \/ bucket.entries # <<>> /\ Last(bucket.entries).k = k
                        \/ \A i \in DOMAIN bucket.entries : bucket.entries[i].k # k
          /\ ~isKeyed => k = ""
          /\ inputJson' = WithEntry(inputJson, k, m)
          /\ inputData' = WithEntry(inputData, k,
                                    IF isKeyed \/ ~Truthy(m) THEN m ELSE WithoutHint(m))
          /\ \E f \in {IF ~Truthy(meal) \/ ~IsObjectLike(meal)
                       THEN [self |-> validator, ret |-> <<>>]
                       ELSE FlattenOptions(validator, WithoutHint(meal), regionKey,
                                           dietKey, Get(meal, "_mealTypeHint"))} :
                /\ validator' = f.self
                /\ flattened' = IF Threw(f) THEN <<>> ELSE f.ret
                /\ pc' = IF Threw(f) THEN "thrown"
                         ELSE IF f.ret = <<>> THEN "meals" ELSE "place"
    /\ flatIndex' = 0
    /\ normalizedMeal' = Null
    /\ violations' = <<>>
    /\ targetDiet' = ""
    /\ UNCHANGED <<corpus, cleanedData, regionKey, dietKey, clock, second, call, cli>>

\* One iteration of the loop over flattened: violation check and placement.
\* When checkDietViolations raises, validateAndFix is left with the
\* exception: the record is not placed and nothing is returned.
PlaceStep ==
    /\ pc = "place"
    /\ \E rs \in {PlaceMeal([self |-> validator, cleanedData |-> cleanedData],
                            flattened[flatIndex + 1], regionKey, dietKey)},
          v \in {Reclassify(flattened[flatIndex + 1], dietKey)} :
          IF Threw(rs)
          THEN /\ validator' = rs.self
               /\ pc' = "thrown"
               /\ UNCHANGED <<cleanedData, violations, targetDiet, normalizedMeal,
                              flatIndex>>
          ELSE /\ validator' = rs.self
               /\ cleanedData' = rs.cleanedData
               /\ violations' = v.violations
               /\ targetDiet' = v.targetDiet
               /\ normalizedMeal' = v.normalizedMeal
               /\ flatIndex' = flatIndex + 1
               /\ pc' = IF flatIndex + 1 = Len(flattened) THEN "meals" ELSE "place"
    /\ UNCHANGED <<corpus, inputJson, inputData, regionKey, dietKey, flattened, clock,
                   second, call, cli>>

\* The input is exhausted: the metadata block is built and the catalog returned.
Finish ==
    /\ Reading
    /\ cleanedData' = WithMeta(cleanedData,
                               BuildMeta(validator, cleanedData, Timestamps[clock]))
    /\ pc' = "done"
    /\ regionKey' = ""
    /\ dietKey' = ""
    /\ NoMeal
    /\ UNCHANGED <<corpus, inputJson, inputData, validator, clock, second, call, cli>>

\* Time passes between two runs.
Tick ==
    /\ pc = "done"
    /\ clock < Len(Timestamps)
    /\ clock' = clock + 1
    /\ UNCHANGED <<corpus, inputJson, inputData, validator, cleanedData, pc, regionKey,
                   dietKey, flattened, flatIndex, normalizedMeal, violations,
                   targetDiet, second, call, cli>>

\* A second run, with a fresh validator, on the same input document.
Rerun ==
    /\ pc = "done"
    /\ second' = ValidateAndFix(NewValidator, inputJson, Timestamps[clock])
    /\ pc' = "rerun"
    /\ UNCHANGED <<corpus, inputJson, inputData, validator, cleanedData, regionKey, dietKey,
                   flattened, flatIndex, normalizedMeal, violations, targetDiet, clock, call, cli>>

\* A second run, with a fresh validator, on the catalog the first run returned.
Revalidate ==
    /\ pc = "done"
    /\ second' = ValidateAndFix(NewValidator, DocumentOf(cleanedData), Timestamps[clock])
    /\ pc' = "revalidated"
    /\ UNCHANGED <<corpus, inputJson, inputData, validator, cleanedData, regionKey, dietKey,
                   flattened, flatIndex, normalizedMeal, violations, targetDiet, clock, call, cli>>

Next ==
    \/ \E origRegion \in Corpora[corpus].regionKeys,
          regionData \in Corpora[corpus].skipped : RegionStep(origRegion, regionData)
    \/ \E origDiet \in Corpora[corpus].dietKeys, keyed \in Corpora[corpus].keyed :
          DietStep(origDiet, keyed)
    \/ \E m \in Corpora[corpus].entries, k \in Corpora[corpus].bucketKeys :
          MealStep(m, k)
    \/ PlaceStep
    \/ Finish
    \/ Tick
    \/ Rerun
    \/ Revalidate

Spec == Init /\ [][Next]_vars

\* The traversal over the two families of documents whose buckets, arrays
\* and objects keyed by meal type, hold records with and without options.
FairInit == Init /\ corpus \in {"hints", "buckets"}

\* validateAndFix is sequential code: the body of the loop over flattened
\* runs for each of its elements, and when the loops are over the metadata
\* is built and the catalog returned.  What the document holds next is the
\* input's choice and is under no fairness.
FairSpec == FairInit /\ [][Next]_vars /\ WF_vars(PlaceStep) /\ WF_vars(Finish)

(***************************************************************************)
(* The methods of MealValidator called one at a time on one validator:     *)
(* parseNumeric, generateTitle and normalizeMeal with arguments drawn from *)
(* the sets below.  call records the last call: the method, its arguments, *)
(* the validator before the call, the value returned (ret) or the          *)
(* exception raised (threw), and the number of calls made so far.          *)
(***************************************************************************)
\* Number of method calls made on one validator.
MaxCalls == 2

\* The object with the fields of o that are not undefined.
WithPresent(o) == [k \in {j \in DOMAIN o : o[j] # Undefined} |-> o[k]]

\* Values of a nutrient field; among the strings, 12.5 between a no-break
\* space and an ideographic space, and the Arabic-Indic digits 1 and 2.
NumericInputs ==
    {Undefined, Null, Str(""), NaN, Num(0), Num(250), Num(-3), Dec(125, 1),
     Str("12.5g"), Str("1,200 kcal"), Str("abc"), Str("   "), Str("-"), Str("-.-5"),
     Str("- 5"), Str(".5"), Str("Rs. 40"), Str("\\u00a012.5\\u3000"),
     Str("\\u0661\\u0662"), Bool(TRUE)}

\* The field and record id a nutrient value is parsed for.
NumericTargets == {[field |-> "calories", id |-> Str("7")],
                   [field |-> "fiber", id |-> Str("100000")]}

TitleValues ==
    {Undefined, Str(""), Str("Option 1"), Str("option2 special"), Str("Rice Bowl"),
     Str(" Rice Bowl "), Str("Rice Bowl\r\n"), Str("option\r1"),
     Str("\\u3000Dal\\u2003"), Str("Option\\u00a01"), Str("\\u00a0"), Dec(1, 7),
     Obj([toString |-> Str("x")])}

FoodsValues ==
    {Undefined, Arr(<<>>), Arr(<<Str("Rice")>>), Arr(<<Str("Rice"), Str("Beans")>>),
     Arr(<<Str("Rice"), Obj([name |-> Str("Beans")]), Obj([title |-> Str("Dal")]),
           Str("Extra")>>),
     Arr(<<Obj(EmptyFields), Str(""), Str("  "), Str("Rice")>>),
     Arr(<<Str(""), Str("Rice"), Str("Beans"), Str("Dal")>>),
     Arr(<<Str("\r"), Str("Dal")>>),
     Arr(<<Str("\\u3000"), Str("Rice")>>),
     Arr(<<Obj([name |-> Num(5)])>>),
     Arr(<<Obj([name |-> Bool(TRUE)]), Str("Rice")>>),
     Arr(<<Str("Rice"), Obj([title |-> Num(7)])>>),
     Arr(<<Str("A"), Str("B"), Str("C"), Obj([name |-> Num(5)])>>)}

\* Records generateTitle is called with.
TitleInputs ==
    {Obj(WithPresent([title |-> ttl, foods |-> fs])) : ttl \in TitleValues, fs \in FoodsValues}
      \cup {Obj([name |-> Str("Fish Curry"), foods |-> Arr(<<Str("Rice")>>)]),
            Obj([title |-> Str("Option 3"), ingredients |-> Str("rice lentils ghee")])}

\* Records without a usable title and without named foods, whose ingredients
\* hold five, six and seven words, words with white space around and between
\* them (spaces, line breaks, a form feed, a no-break space, a line
\* separator, U+FEFF), and white space only.
IngredientsInputs ==
    {Obj([foods |-> Arr(<<Str("")>>), ingredients |-> Str("rice lentils ghee salt water")]),
     Obj([title |-> Str("Option 3"),
          ingredients |-> Str("rice lentils ghee salt water cumin")]),
     Obj([ingredients |-> Str("rice lentils ghee salt water cumin chili")]),
     Obj([ingredients |-> Str("  rice   lentils ")]),
     Obj([ingredients |-> Str("rice\r\nlentils\fghee")]),
     Obj([ingredients |-> Str("\\ufeffrice\\u00a0lentils\\u2028ghee")]),
     Obj([ingredients |-> Str("   ")])}

\* A canonical record with the required fields only.
CanonicalPlain ==
    Obj([id |-> Str("1"), title |-> Str("Rice Bowl"), mealType |-> Str("lunch"),
         calories |-> Num(250), protein |-> Dec(125, 1), carbs |-> Num(0),
         fat |-> Num(-3), fiber |-> Num(0), region |-> Str("India"),
         diets |-> Arr(<<Str("Vegan")>>)])

\* A canonical record with every optional field, of the same id.
CanonicalFull ==
    Obj([id |-> Str("1"), title |-> Str("Dal Tadka"), mealType |-> Str("dinner"),
         calories |-> Num(180), protein |-> Num(9), carbs |-> Num(20),
         fat |-> Num(4), fiber |-> Num(6), region |-> Str("India"),
         diets |-> Arr(<<Str("Regular"), Str("Vegan")>>),
         serving_size |-> Str("1 bowl"), foods |-> Arr(<<Str("Dal")>>),
         ingredients |-> Str("lentils"), tags |-> Arr(<<Str("quick")>>)])

\* The record normalizeMeal returns, under India and Vegan, for a raw record
\* that has nothing but one food whose name is written with spaces around.
CanonicalFromFoods ==
    NormalizeMeal(NewValidator, Obj([foods |-> Arr(<<Str(" Rice ")>>)]),
                  "India", "Vegan", Null, 0).ret

\* Canonical records normalizeMeal is called with, under region India and
\* diet Vegan.
CanonicalInputs == {CanonicalPlain, CanonicalFull, CanonicalFromFoods}

\* Raw records normalizeMeal is called with: an id and a serving size that
\* are the number 1e-7, an id, a serving size and a meal type that are
\* objects with a key toString.
UnusualInputs ==
    {Obj([id |-> Dec(1, 7), title |-> Str("Tiny"), serving_size |-> Dec(1, 7)]),
     Obj([id |-> Obj([toString |-> Str("x")]), title |-> Str("Tiny")]),
     Obj([id |-> Str("9"), title |-> Str("Tiny"),
          serving_size |-> Obj([toString |-> Num(1)])]),
     Obj([id |-> Str("9"), title |-> Str("Tiny"),
          mealType |-> Obj([toString |-> Num(1)])]),
     Obj([id |-> Str("__proto__"), title |-> Str("Tiny")])}

\* Values of a record's mealType: absent or empty, canonical names as they
\* are written in catalogs, the two synonyms, values that contain a canonical
\* name, values that contain none, and values that are not strings.
MealTypeInputs ==
    {Undefined, Str(""), Str("lunch"), Str("Breakfast"), Str(" Dinner "), Str("SNACKS"),
     Str("snack"), Str("snack\r"), Str("snack\\u00a0"), Str("\\u3000supper"),
     Str("Supper"), Str("late dinner"), Str("Lunch/Dinner"),
     Str("pre-breakfast snacks"), Str("brunch"), Str("   "), Num(5), Bool(TRUE),
     Obj([toString |-> Str("x")])}

\* Titles normalizeMealType is called with; the K of the last is the Kelvin
\* sign U+212A, which toLowerCase turns into k.
MealTypeTitles == {Str(""), Str("Evening Soup"), Str("COO\\u212aIE")}

CallCount == IF call = Null THEN 0 ELSE call.count

\* The variables the traversal owns, left alone by a method call.
TraversalIdle ==
    UNCHANGED <<corpus, inputJson, inputData, cleanedData, pc, regionKey, dietKey,
                flattened, flatIndex, normalizedMeal, violations, targetDiet, clock,
                second, cli>>

MethodsInit ==
    /\ corpus = "none"
    /\ inputJson = <<>>
    /\ inputData = <<>>
    /\ validator = NewValidator
    /\ cleanedData = EmptyCatalog
    /\ pc = "methods"
    /\ regionKey = ""
    /\ dietKey = ""
    /\ flattened = <<>>
    /\ flatIndex = 0
    /\ normalizedMeal = Null
    /\ violations = <<>>
    /\ targetDiet = ""
    /\ clock = 1
    /\ second = Null
    /\ call = Null
    /\ cli = Null

\* validator.parseNumeric(value, target.field, target.id)
ParseNumericCall(value, target) ==
    /\ pc = "methods"
    /\ CallCount < MaxCalls
    /\ \E r \in {ParseNumeric(validator, value, target.field, target.id)} :
          /\ validator' = r.self
          /\ call' = IF Threw(r)
                      THEN [op |-> "parseNumeric", args |-> <<value, target.field, target.id>>,
                            self |-> validator, threw |-> r.threw, count |-> CallCount + 1]
                      ELSE [op |-> "parseNumeric", args |-> <<value, target.field, target.id>>,
                            self |-> validator, ret |-> r.ret, count |-> CallCount + 1]
    /\ TraversalIdle

\* validator.generateTitle(meal, 'India', 'Vegan', 0)
GenerateTitleCall(meal) ==
    /\ pc = "methods"
    /\ CallCount < MaxCalls
    /\ \E r \in {GenerateTitle(validator, meal, "India", "Vegan", 0)} :
          /\ validator' = r.self
          /\ call' = IF Threw(r)
                      THEN [op |-> "generateTitle", args |-> <<meal>>,
                            self |-> validator, threw |-> r.threw, count |-> CallCount + 1]
                      ELSE [op |-> "generateTitle", args |-> <<meal>>,
                            self |-> validator, ret |-> r.ret, count |-> CallCount + 1]
    /\ TraversalIdle

\* validator.normalizeMeal(meal, 'India', 'Vegan')
NormalizeMealCall(meal) ==
    /\ pc = "methods"
    /\ CallCount < MaxCalls
    /\ \E r \in {NormalizeMeal(validator, meal, "India", "Vegan", Null, 0)} :
          /\ validator' = r.self
          /\ call' = IF Threw(r)
                      THEN [op |-> "normalizeMeal", args |-> <<meal>>,
                            self |-> validator, threw |-> r.threw, count |-> CallCount + 1]
                      ELSE [op |-> "normalizeMeal", args |-> <<meal>>,
                            self |-> validator, ret |-> r.ret, count |-> CallCount + 1]
    /\ TraversalIdle

\* validator.normalizeMealType(mealType, title)
NormalizeMealTypeCall(mealType, title) ==
    /\ pc = "methods"
    /\ CallCount < MaxCalls
    /\ \E r \in {NormalizeMealType(mealType, title, Arr(<<>>))} :
          call' = IF r = TypeError
                  THEN [op |-> "normalizeMealType", args |-> <<mealType, title>>,
                        self |-> validator, threw |-> r, count |-> CallCount + 1]
                  ELSE [op |-> "normalizeMealType", args |-> <<mealType, title>>,
                        self |-> validator, ret |-> r, count |-> CallCount + 1]
    /\ UNCHANGED validator
    /\ TraversalIdle

MethodsNext ==
    \/ \E value \in NumericInputs, target \in NumericTargets : ParseNumericCall(value, target)
    \/ \E meal \in TitleInputs \cup IngredientsInputs \cup {Null} :
          GenerateTitleCall(meal)
    \/ \E meal \in CanonicalInputs \cup UnusualInputs : NormalizeMealCall(meal)
    \/ \E mealType \in MealTypeInputs, title \in MealTypeTitles :
          NormalizeMealTypeCall(mealType, title)

MethodsSpec == MethodsInit /\ [][MethodsNext]_vars

(***************************************************************************)
(* JSON.parse.  The value of a JSON text is a JavaScript value whose       *)
(* objects keep the order of their keys (Keyed, the sequence of their      *)
(* [k, v] entries as Object.entries gives them): the traversal depends on  *)
(* it.  A number is read as the decimal fraction the text writes.          *)
(***************************************************************************)
JsonFail == [ok |-> FALSE]

\* The spelling of the code unit of number n.
UnitOf(n) ==
    IF n = 92 THEN "\\\\"
    ELSE IF n >= 32 /\ n <= 95
    THEN CharAt(" !\"#$%&'()*+,-./0123456789:;<=>?@ABCDEFGHIJKLMNOPQRSTUVWXYZ[\\]^_", n - 31)
    ELSE IF n >= 97 /\ n <= 126 THEN CharAt("abcdefghijklmnopqrstuvwxyz{|}~", n - 96)
    ELSE IF n = 9 THEN "\t"
    ELSE IF n = 10 THEN "\n"
    ELSE IF n = 12 THEN "\f"
    ELSE IF n = 13 THEN "\r"
    ELSE FromCodePoint(n)

\* The number the four hexadecimal digits w write.
HexNumber(w) ==
    LET Digit(c) == CHOOSE n \in 0..15 : c \in {CharAt("0123456789abcdef", n + 1),
                                                 CharAt("0123456789ABCDEF", n + 1)}
    IN 4096 * Digit(w[1]) + 256 * Digit(w[2]) + 16 * Digit(w[3]) + Digit(w[4])

\* The key k is an array index: the canonical decimal numeral of an integer
\* from 0 to 2^32 - 2.
IsIndex(k) ==
    /\ k # ""
    /\ \A i \in 1..Len(k) : CharAt(k, i) \in Digits
    /\ Len(k) = 1 \/ CharAt(k, 1) # "0"
    /\ \/ Len(k) < 10
       \/ /\ Len(k) = 10
          /\ \/ k = "4294967294"
             \/ \E p \in 1..10 :
                   /\ SubSeq(k, 1, p - 1) = SubSeq("4294967294", 1, p - 1)
                   /\ DigitVal(CharAt(k, p)) < DigitVal(CharAt("4294967294", p))

\* The array index a is below the array index b.
IndexBelow(a, b) ==
    \/ Len(a) < Len(b)
    \/ /\ Len(a) = Len(b)
       /\ \E p \in 1..Len(a) :
             /\ SubSeq(a, 1, p - 1) = SubSeq(b, 1, p - 1)
             /\ DigitVal(CharAt(a, p)) < DigitVal(CharAt(b, p))

\* The entries of an object after the property k is defined with value v:
\* a key the object has keeps its place; array indices come first, in
\* ascending order; any other key comes last.
Define(entries, k, v) ==
    IF \E i \in DOMAIN entries : entries[i].k = k
    THEN [i \in DOMAIN entries |->
            IF entries[i].k = k THEN [k |-> k, v |-> v] ELSE entries[i]]
    ELSE IF IsIndex(k)
    THEN Then(Cardinality({i \in DOMAIN entries :
                              IsIndex(entries[i].k) /\ IndexBelow(entries[i].k, k)}),
              LAMBDA p : SubSeq(entries, 1, p) \o <<[k |-> k, v |-> v]>>
                            \o SubSeq(entries, p + 1, Len(entries)))
    ELSE Append(entries, [k |-> k, v |-> v])

RECURSIVE JsonSkip(_, _)
\* The position of the first code unit of u, from i on, that is no JSON
\* white space (space, tab, line feed, carriage return).
JsonSkip(u, i) ==
    IF i <= Len(u) /\ u[i] \in {" ", "\t", "\n", "\r"} THEN JsonSkip(u, i + 1) ELSE i

RECURSIVE JsonChars(_, _, _)
\* The string whose literal continues at position i of u, after units acc:
\* up to the closing quote, escapes replaced by what they stand for.  A
\* code unit below U+0020 and an unknown escape are errors.
JsonChars(u, i, acc) ==
    IF i > Len(u) THEN JsonFail
    ELSE IF u[i] = "\"" THEN [ok |-> TRUE, value |-> Text(acc), next |-> i + 1]
    ELSE IF u[i] = "\\\\"
    THEN IF i = Len(u) THEN JsonFail
         ELSE IF u[i + 1] \in {"\"", "\\\\", "/", "b", "f", "n", "r", "t"}
         THEN JsonChars(u, i + 2,
                        Append(acc, CASE u[i + 1] = "b" -> "\\u0008"
                                      [] u[i + 1] = "f" -> "\f"
                                      [] u[i + 1] = "n" -> "\n"
                                      [] u[i + 1] = "r" -> "\r"
                                      [] u[i + 1] = "t" -> "\t"
                                      [] OTHER -> u[i + 1]))
         ELSE IF /\ u[i + 1] = "u"
                 /\ i + 5 <= Len(u)
                 /\ \A k \in 2..5 : \E n \in 1..16 :
                       u[i + k] \in {CharAt("0123456789abcdef", n),
                                     CharAt("0123456789ABCDEF", n)}
         THEN JsonChars(u, i + 6,
                        Append(acc, UnitOf(HexNumber(SubSeq(u, i + 2, i + 5)))))
         ELSE JsonFail
    ELSE IF u[i] \in {"\t", "\n", "\f", "\r"}
            \/ (Len(u[i]) = 6 /\ SubSeq(u[i], 1, 5) \in {"\\u000", "\\u001"})
    THEN JsonFail
    ELSE JsonChars(u, i + 1, Append(acc, u[i]))

\* The number the JSON numeral t writes, or JsonFail when t is none: an
\* optional minus sign, an integer part without a leading zero, an optional
\* fraction, an optional exponent.  The number is the double nearest to the
\* decimal fraction written, for a numeral whose digits write a number
\* below 2^31; minus zero is read as zero.
JsonNumber(t) ==
    LET body == IF Head(t) = "-" THEN Tail(t) ELSE t
        es == {k \in 1..Len(body) : CharAt(body, k) \in {"e", "E"}}
        m == IF es = {} THEN body ELSE SubSeq(body, 1, MinOf(es) - 1)
        x == IF es = {} THEN "" ELSE SubSeq(body, MinOf(es) + 1, Len(body))
        xd == IF x # "" /\ Head(x) \in {"+", "-"} THEN Tail(x) ELSE x
        ds == {k \in 1..Len(m) : CharAt(m, k) = "."}
        ip == IF ds = {} THEN m ELSE SubSeq(m, 1, MinOf(ds) - 1)
        fp == IF ds = {} THEN "" ELSE SubSeq(m, MinOf(ds) + 1, Len(m))
        AllDigits(s) == \A k \in 1..Len(s) : CharAt(s, k) \in Digits
        scale == Len(fp) - (IF x # "" /\ Head(x) = "-" THEN -1 ELSE 1) * DigitsValue(xd, 0)
        mant == (IF Head(t) = "-" THEN -1 ELSE 1) * DigitsValue(ip \o fp, 0)
    IN IF /\ ip # "" /\ AllDigits(ip) /\ (Len(ip) = 1 \/ CharAt(ip, 1) # "0")
          /\ ds = {} \/ (fp # "" /\ AllDigits(fp))
          /\ es = {} \/ (xd # "" /\ AllDigits(xd))
       THEN IF scale >= 0 THEN Double(mant, scale) ELSE Num(mant * Pow10(-scale))
       ELSE JsonFail

RECURSIVE JsonValue(_, _)
RECURSIVE JsonElements(_, _, _)
RECURSIVE JsonMembers(_, _, _)
\* The JSON value that begins at position i of u: [ok, value, next], next
\* being the position after it; [ok |-> FALSE] when there is none.
JsonValue(u, i) ==
    IF i > Len(u) THEN JsonFail
    ELSE IF u[i] = "{"
    THEN Then(JsonSkip(u, i + 1), LAMBDA j :
            IF j <= Len(u) /\ u[j] = "}"
            THEN [ok |-> TRUE, value |-> Keyed(<<>>), next |-> j + 1]
            ELSE JsonMembers(u, j, <<>>))
    ELSE IF u[i] = "["
    THEN Then(JsonSkip(u, i + 1), LAMBDA j :
            IF j <= Len(u) /\ u[j] = "]"
            THEN [ok |-> TRUE, value |-> Arr(<<>>), next |-> j + 1]
            ELSE JsonElements(u, j, <<>>))
    ELSE IF u[i] = "\""
    THEN Then(JsonChars(u, i + 1, <<>>), LAMBDA s :
            IF s.ok THEN [ok |-> TRUE, value |-> Str(s.value), next |-> s.next]
            ELSE JsonFail)
    ELSE IF u[i] = "-" \/ u[i] \in Digits
    THEN Then({k \in i..Len(u) : u[k] \notin Digits \cup {"-", "+", ".", "e", "E"}},
              LAMBDA others :
         Then(IF others = {} THEN Len(u) + 1 ELSE MinOf(others), LAMBDA j :
         Then(JsonNumber(Text(SubSeq(u, i, j - 1))), LAMBDA n :
            IF n = JsonFail THEN JsonFail
            ELSE [ok |-> TRUE, value |-> n, next |-> j])))
    ELSE IF i + 3 <= Len(u) /\ SubSeq(u, i, i + 3) = <<"t", "r", "u", "e">>
    THEN [ok |-> TRUE, value |-> Bool(TRUE), next |-> i + 4]
    ELSE IF i + 4 <= Len(u) /\ SubSeq(u, i, i + 4) = <<"f", "a", "l", "s", "e">>
    THEN [ok |-> TRUE, value |-> Bool(FALSE), next |-> i + 5]
    ELSE IF i + 3 <= Len(u) /\ SubSeq(u, i, i + 3) = <<"n", "u", "l", "l">>
    THEN [ok |-> TRUE, value |-> Null, next |-> i + 4]
    ELSE JsonFail

\* The array whose elements acc are read and whose next element begins at
\* position i.
JsonElements(u, i, acc) ==
    Then(JsonValue(u, i), LAMBDA r :
        IF ~r.ok THEN JsonFail
        ELSE Then(JsonSkip(u, r.next), LAMBDA j :
            IF j > Len(u) THEN JsonFail
            ELSE IF u[j] = ","
            THEN JsonElements(u, JsonSkip(u, j + 1), Append(acc, r.value))
            ELSE IF u[j] = "]"
            THEN [ok |-> TRUE, value |-> Arr(Append(acc, r.value)), next |-> j + 1]
            ELSE JsonFail))

\* The object whose members acc are read and whose next member begins at
\* position i.
JsonMembers(u, i, acc) ==
    IF i > Len(u) \/ u[i] # "\"" THEN JsonFail
    ELSE Then(JsonChars(u, i + 1, <<>>), LAMBDA k :
        IF ~k.ok THEN JsonFail
        ELSE Then(JsonSkip(u, k.next), LAMBDA c :
            IF c > Len(u) \/ u[c] # ":" THEN JsonFail
            ELSE Then(JsonValue(u, JsonSkip(u, c + 1)), LAMBDA r :
                IF ~r.ok THEN JsonFail
                ELSE Then(JsonSkip(u, r.next), LAMBDA j :
                    IF j > Len(u) THEN JsonFail
                    ELSE IF u[j] = ","
                    THEN JsonMembers(u, JsonSkip(u, j + 1), Define(acc, k.value, r.value))
                    ELSE IF u[j] = "}"
                    THEN [ok |-> TRUE, value |-> Keyed(Define(acc, k.value, r.value)),
                          next |-> j + 1]
                    ELSE JsonFail))))

\* JSON.parse(raw): ok is FALSE when it throws a SyntaxError.
JSONParse(raw) ==
    Then(Units(raw), LAMBDA u :
    Then(JsonValue(u, JsonSkip(u, 1)), LAMBDA r :
        IF r.ok /\ JsonSkip(u, r.next) > Len(u)
        THEN [ok |-> TRUE, value |-> r.value]
        ELSE [ok |-> FALSE, value |-> Undefined]))

RECURSIVE Unordered(_)
\* The value v with the order of the keys of its objects forgotten: the
\* form of the records the methods of MealValidator work on.
Unordered(v) ==
    IF v.t = "array" THEN Arr([i \in DOMAIN v.a |-> Unordered(v.a[i])])
    ELSE IF v.t = "object" /\ "entries" \in DOMAIN v
    THEN Obj([k \in {v.entries[i].k : i \in DOMAIN v.entries} |->
                Unordered(v.entries[CHOOSE i \in DOMAIN v.entries : v.entries[i].k = k].v)])
    ELSE v

\* Object.entries(v): the [key, value] pairs of an object, the indices and
\* elements of an array, the indices and code units of a string; none for
\* any other value that is not null or undefined.
Entries(v) ==
    IF v.t = "object" THEN v.entries
    ELSE IF v.t = "array" THEN [i \in DOMAIN v.a |-> [k |-> ToString(i - 1), v |-> v.a[i]]]
    ELSE IF v.t = "string"
    THEN Then(Units(v.s), LAMBDA u :
            [i \in DOMAIN u |-> [k |-> ToString(i - 1), v |-> Str(u[i])]])
    ELSE <<>>

\* dietData as the traversal reads it: an array of entries, an object by
\* its entries, or another value.
DietData(dietData) ==
    IF dietData.t = "object" /\ "entries" \in DOMAIN dietData
    THEN Keyed([i \in DOMAIN dietData.entries |->
                   [k |-> dietData.entries[i].k, v |-> Unordered(dietData.entries[i].v)]])
    ELSE Unordered(dietData)

\* The document validateAndFix reads from the argument `parsed` it is given
\* as inputData: the entries of Object.entries(inputData || {}), each with the entries of
\* Object.entries(regionData || {}).
Document(parsed) ==
    Then(Entries(OrElse(parsed, Keyed(<<>>))), LAMBDA regions :
        [r \in DOMAIN regions |->
            [k |-> regions[r].k,
             v |-> Then(Entries(OrElse(regions[r].v, Keyed(<<>>))), LAMBDA diets :
                      [d \in DOMAIN diets |->
                          [k |-> diets[d].k, v |-> DietData(diets[d].v)]])]])

RECURSIVE Revived(_)
\* JSON.parse(JSON.stringify(v)) for a value v of a record: a field whose
\* value is undefined is left out, undefined in an array and NaN are
\* written as null, and only the fields of the object itself are written.
Revived(v) ==
    IF v.t = "array"
    THEN Arr([i \in DOMAIN v.a |-> IF v.a[i] = Undefined THEN Null ELSE Revived(v.a[i])])
    ELSE IF v.t = "object"
    THEN Obj([k \in {f \in DOMAIN v.o : v.o[f] # Undefined} |-> Revived(v.o[k])])
    ELSE IF IsNaN(v) THEN Null
    ELSE v

\* JSON.parse(JSON.stringify(cleaned, null, 2)) for a catalog validateAndFix
\* returned: the catalog, its keys in the order they were created.
Parsed(cleaned) ==
    LET Strings(f) == Obj([k \in DOMAIN f |-> Str(f[k])])
        meta == cleaned["__meta__"]
        Leaves(r, d) ==
            Keyed([m \in DOMAIN CANONICAL_MEAL_TYPES |->
                      [k |-> CANONICAL_MEAL_TYPES[m],
                       v |-> Revived(Arr(cleaned[r][d][CANONICAL_MEAL_TYPES[m]]))]])
        Diets(r) ==
            Keyed([d \in DOMAIN CANONICAL_DIETS |->
                      [k |-> CANONICAL_DIETS[d], v |-> Leaves(r, CANONICAL_DIETS[d])]])
    IN Keyed([r \in DOMAIN CANONICAL_REGIONS |->
                 [k |-> CANONICAL_REGIONS[r], v |-> Diets(CANONICAL_REGIONS[r])]]
             \o <<[k |-> "__meta__",
                   v |-> Keyed(<<[k |-> "fixed_on", v |-> Str(meta.fixed_on)],
                                 [k |-> "script_version", v |-> Str(meta.script_version)],
                                 [k |-> "changes",
                                  v |-> Arr([i \in DOMAIN meta.changes |->
                                                Str(meta.changes[i])])],
                                 [k |-> "id_reassignments",
                                  v |-> Strings(meta.id_reassignments)],
                                 [k |-> "region_mappings",
                                  v |-> Strings(meta.region_mappings)],
                                 [k |-> "diet_mappings", v |-> Strings(meta.diet_mappings)],
                                 [k |-> "summary",
                                  v |-> Keyed(<<[k |-> "totalBefore",
                                                 v |-> Num(meta.summary.totalBefore)],
                                                [k |-> "totalAfter",
                                                 v |-> Num(meta.summary.totalAfter)]>>)]>>)]>>)

(***************************************************************************)
(* What a run of validateAndFix does besides returning the catalog: it     *)
(* deletes the field _mealTypeHint from the entries of array buckets that  *)
(* its loop takes, and warns about each region entry it skips for its key. *)
(***************************************************************************)
\* The document up to entry i of the array bucket d of region r, that entry
\* left out.
Before(document, r, d, i) ==
    Append(SubSeq(document, 1, r - 1),
           [k |-> document[r].k,
            v |-> Append(SubSeq(document[r].v, 1, d - 1),
                         [k |-> document[r].v[d].k,
                          v |-> Arr(SubSeq(document[r].v[d].v.a, 1, i - 1))])])

\* The loop over allMeals takes entry i of bucket d of region r in the run
\* of outcome `outcome`: the run returns, or no entry before this one makes
\* it raise.
Reaches(self, document, now, outcome, r, d, i) ==
    ~Threw(outcome) \/ ~Threw(ValidateAndFix(self, Before(document, r, d, i), now))

\* The document after the run: `delete meal._mealTypeHint` has acted on the
\* entries of array buckets the loop took (the entries of a bucket keyed by
\* meal type are copied first).
InputAfter(self, document, now, outcome) ==
    [r \in DOMAIN document |->
        [k |-> document[r].k,
         v |-> IF RegionHeader(self, document[r].k).skip THEN document[r].v
               ELSE [d \in DOMAIN document[r].v |->
                       [k |-> document[r].v[d].k,
                        v |-> IF document[r].v[d].v.t # "array" THEN document[r].v[d].v
                              ELSE Arr([i \in DOMAIN document[r].v[d].v.a |->
                                          Then(document[r].v[d].v.a[i], LAMBDA m :
                                            IF /\ m.t = "object"
                                               /\ "_mealTypeHint" \in DOMAIN m.o
                                               /\ Reaches(self, document, now, outcome,
                                                          r, d, i)
                                            THEN WithoutHint(m) ELSE m)])]]]]

\* The value `parsed` that JSON.parse returned, after the run over its document.
ParsedAfter(parsed, document, now, outcome) ==
    LET Rebuilt(v, F(_, _)) ==
            IF v.t = "array" THEN Arr([i \in DOMAIN v.a |-> F(i, v.a[i])])
            ELSE IF v.t = "object" /\ "entries" \in DOMAIN v
            THEN Keyed([i \in DOMAIN v.entries |->
                           [k |-> v.entries[i].k, v |-> F(i, v.entries[i].v)]])
            ELSE v
        Kept(m, r, d, i) ==
            IF /\ m.t = "object"
               /\ "_mealTypeHint" \in DOMAIN Unordered(m).o
               /\ Reaches(NewValidator, document, now, outcome, r, d, i)
            THEN IF "entries" \in DOMAIN m
                 THEN Keyed(SelectSeq(m.entries, LAMBDA e : e.k # "_mealTypeHint"))
                 ELSE WithoutHint(m)
            ELSE m
    IN Rebuilt(parsed, LAMBDA r, regionData :
          IF RegionHeader(NewValidator, document[r].k).skip THEN regionData
          ELSE Rebuilt(regionData, LAMBDA d, dietData :
                  IF dietData.t # "array" THEN dietData
                  ELSE Arr([i \in DOMAIN dietData.a |-> Kept(dietData.a[i], r, d, i)])))

\* The lines console.warn writes during the run, without the sign they
\* begin with: one for each region entry the loop takes and skips because
\* its key is no region.
Warnings(document, now, outcome) ==
    Then(IF ~Threw(outcome) THEN Len(document)
         ELSE MinOf({r \in DOMAIN document :
                       Threw(ValidateAndFix(NewValidator, SubSeq(document, 1, r), now))}),
         LAMBDA taken :
    Then(SelectSeq(SubSeq(document, 1, taken),
                   LAMBDA e : e.k # "__meta__" /\ RegionHeader(NewValidator, e.k).skip),
         LAMBDA skipped :
            [i \in DOMAIN skipped |-> "Unknown region " \o skipped[i].k \o ", skipping"]))

(***************************************************************************)
(* main(): the command line run.  The process is the record cli: its       *)
(* arguments, the files it can see (fs, and fs0 as they were at the        *)
(* start), how the write of the output file goes (write), what it has read *)
(* and produced, what it wrote to stderr and its exit code.  A file is     *)
(* Missing or holds a text; the file main writes holds the JSON text of a  *)
(* catalog, kept as that catalog, or the first bytes of that text when the *)
(* write failed on the way.                                                *)
(***************************************************************************)
Missing == [t |-> "missing"]
TextFile(s) == [t |-> "text", s |-> s]
JsonFile(v) == [t |-> "json", of |-> v]
PartFile(v, k) == IF k = 0 THEN TextFile("") ELSE [t |-> "part", of |-> v, bytes |-> k]

RiceText == "{\"India\":{\"Vegan\":[{\"id\":7,\"title\":\"Rice Bowl\",\"calories\":250,\"protein\":\"12.5g\",\"diets\":[\"Vegan\"]}]}}"
NumberedText == "{\"India\":{\"Vegan\":[{\"title\":\"Option 1\",\"foods\":[{\"name\":5}]}]}}"
SalmonText == "{\"Atlantis\":{},\"India\":{\"Vegan\":[{\"title\":\"Milk Salmon Bowl\",\"tags\":\"quick\"}]}}"

\* A record with a field _mealTypeHint in an array bucket, after a region
\* of unknown key; the bucket is under the diet key 7, which is read before
\* the key Vegan; the text is indented.
HintedText == "{\n  \"Mars\": [],\n  \"USA\": {\"Vegan\": [], \"7\": [{\"title\": \"Toast\", \"_mealTypeHint\": \"dinner\", \"fat\": 1.5e1}]}\n}"

\* A record that makes validateAndFix raise, between a region of unknown
\* key the loop has taken and one it never takes; the record before it
\* carries a field _mealTypeHint, and so does the one after it.
RaisingText == "{\"Atlantis\":1,\"India\":{\"Vegan\":[{\"title\":\"Dal\",\"_mealTypeHint\":\"x\"},{\"title\":\"Option 1\",\"foods\":[{\"name\":5}]},{\"title\":\"Soup\",\"_mealTypeHint\":\"y\"}]},\"Mars\":2}"

\* A record whose title is written with escapes, under a key given twice.
EscapedText == "{\"India\":{\"Vegan\":[]},\"India\":{\"Keto\":[{\"title\":\"Caf\\\\u00e9 \\\\\"Au Lait\\\\\"\\\\n\",\"id\":\"a\\\\\\\\b\"}]}}"

\* Texts that are not JSON.
NotJson ==
    {"", "{oops", "{\"India\":{},}", "[1 2]", "\\ufeff{}", "{\"a\":01}", "{'a':1}",
     "\"a\tb\"", "{\"a\":\"\\\\x\"}", "nul", "{} {}", "-", "[1.]", "{\"a\" 1}"}

\* Texts that are JSON: null, a number, a string, an array, objects.
JsonTexts ==
    {"null", " 12.50 ", "\"ab\"", "[{\"Vegan\":[{\"title\":\"Dal\"}]}]", "{}",
     RiceText, SalmonText, NumberedText, HintedText, RaisingText, EscapedText}

\* Texts the input file may hold.
InputTexts == NotJson \cup JsonTexts

\* The catalog an earlier run of the tool wrote, on the text RiceText.
EarlierOutput ==
    ValidateAndFix(NewValidator, Document(JSONParse(RiceText).value),
                   "2024-12-31T23:59:59.999Z").ret

\* JSON.parse(fs.readFileSync(path, 'utf8')) for the file at path: ok is
\* FALSE when the file is missing or its text is not JSON, as the text of
\* a catalog cut before its end is not.
ReadJson(file) ==
    IF file.t = "text" THEN JSONParse(file.s)
    ELSE IF file.t = "json" THEN [ok |-> TRUE, value |-> Parsed(file.of)]
    ELSE [ok |-> FALSE, value |-> Undefined]

\* process.argv.slice(2)
ArgumentLists ==
    {<<>>, <<"in.json">>, <<"in.json", "out.json">>, <<"in.json", "in.json">>,
     <<"in.json", "out.json", "extra">>}

\* How fs.writeFileSync goes: it opens the file, which creates it or
\* empties it, and then writes the text; it can fail at the open (the path
\* cannot be written) or at a write after it (the device is full, the file
\* has reached the size it may have), and then the file holds the bytes of
\* the text written before.
WriteOutcomes == {"succeeds", "fails at open", "fails after open"}

\* The number of bytes written before a write fails.
WrittenBytes == {0, 1, 1024}

\* A number of bytes the text JSON.stringify(cleaned, null, 2) of every
\* catalog exceeds: each bucket of each diet of each region is on a line
\* of at least 16 bytes (six spaces, the key of five letters or more in
\* quotes, a colon, a space, a bracket).
LeastTextLength ==
    16 * Len(CANONICAL_REGIONS) * Len(CANONICAL_DIETS) * Len(CANONICAL_MEAL_TYPES)

\* The process at the entry of main.
Processes ==
    {[pc |-> "args", args |-> args, fs |-> fs, fs0 |-> fs,
      write |-> write[1], written |-> write[2],
      inputFile |-> "", outputFile |-> "", inputData |-> Undefined, cleaned |-> Null,
      stderr |-> <<>>, exit |-> Null] :
        args \in ArgumentLists,
        fs \in {[path \in {"in.json", "out.json"} |->
                    IF path = "in.json" THEN input ELSE output] :
                input \in {Missing, JsonFile(EarlierOutput), PartFile(EarlierOutput, 1024)}
                             \cup {TextFile(s) : s \in InputTexts},
                output \in {Missing, TextFile("{}")}},
        write \in {<<outcome, 0>> : outcome \in WriteOutcomes}
                     \cup {<<"fails after open", k>> :
                              k \in {b \in WrittenBytes : b < LeastTextLength}}}

\* console.error(message); process.exit(1)
ExitWithError(p, message) ==
    [p EXCEPT !.pc = "exited", !.exit = 1, !.stderr = Append(@, message)]

\* The check of the arguments, and const [inputFile, outputFile] = args.
CheckArgs(p) ==
    IF Len(p.args) < 2
    THEN ExitWithError(p, "Usage: node tools/validate_and_fix_meals.js <input.json> <output.json>")
    ELSE [p EXCEPT !.pc = "read", !.inputFile = p.args[1], !.outputFile = p.args[2]]

\* The try block that reads and parses the input, taken to go on with an
\* empty document when reading or parsing fails.
ReadInputLenient(p) ==
    Then(ReadJson(p.fs[p.inputFile]), LAMBDA parsed :
        [p EXCEPT !.pc = "validate",
                  !.inputData = IF parsed.ok THEN parsed.value ELSE Null])

\* The try block that reads and parses the input.
ReadInput(p) ==
    Then(ReadJson(p.fs[p.inputFile]), LAMBDA parsed :
        IF parsed.ok THEN [p EXCEPT !.pc = "validate", !.inputData = parsed.value]
        ELSE ExitWithError(p, "Could not read/parse " \o p.inputFile))

\* const validator = new MealValidator(); const cleaned =
\* validator.validateAndFix(inputData), the run having the outcome
\* `outcome` on the document of inputData at time now.  An exception raised
\* by validateAndFix is caught nowhere: the process ends with the error on
\* stderr and exit code 1.
Validate(p, document, now, outcome) ==
    Then([p EXCEPT !.inputData = ParsedAfter(@, document, now, outcome),
                   !.stderr = @ \o Warnings(document, now, outcome)],
         LAMBDA q :
            IF Threw(outcome)
            THEN [q EXCEPT !.pc = "crashed", !.exit = 1,
                           !.stderr = Append(@, "Uncaught " \o outcome.threw.error)]
            ELSE [q EXCEPT !.pc = "write", !.cleaned = outcome.ret])

\* The try block that writes the output.
WriteOutput(p) ==
    IF p.write = "succeeds"
    THEN [p EXCEPT !.pc = "report", !.fs[p.outputFile] = JsonFile(p.cleaned)]
    ELSE IF p.write = "fails at open"
    THEN ExitWithError(p, "Could not write " \o p.outputFile)
    ELSE ExitWithError([p EXCEPT !.fs[p.outputFile] = PartFile(p.cleaned, p.written)],
                       "Could not write " \o p.outputFile)

\* The variables main leaves alone.
MainIdle ==
    UNCHANGED <<corpus, inputJson, inputData, cleanedData, pc, regionKey, dietKey,
                flattened, flatIndex, normalizedMeal, violations, targetDiet, clock,
                second, call>>

MainInit ==
    /\ corpus = "none"
    /\ inputJson = <<>>
    /\ inputData = <<>>
    /\ validator = NewValidator
    /\ cleanedData = EmptyCatalog
    /\ pc = "main"
    /\ regionKey = ""
    /\ dietKey = ""
    /\ flattened = <<>>
    /\ flatIndex = 0
    /\ normalizedMeal = Null
    /\ violations = <<>>
    /\ targetDiet = ""
    /\ clock = 1
    /\ second = Null
    /\ call = Null
    /\ cli \in Processes

CheckArgsStep ==
    /\ pc = "main" /\ cli.pc = "args"
    /\ cli' = CheckArgs(cli)
    /\ UNCHANGED validator
    /\ MainIdle

ReadInputStep ==
    /\ pc = "main" /\ cli.pc = "read"
    /\ cli' = ReadInput(cli)
    /\ UNCHANGED validator
    /\ MainIdle

ValidateStep ==
    /\ pc = "main" /\ cli.pc = "validate"
    /\ \E document \in {Document(cli.inputData)} :
       \E outcome \in {ValidateAndFix(NewValidator, document, Timestamps[clock])} :
          /\ validator' = outcome.self
          /\ cli' = Validate(cli, document, Timestamps[clock], outcome)
    /\ MainIdle

WriteOutputStep ==
    /\ pc = "main" /\ cli.pc = "write"
    /\ cli' = WriteOutput(cli)
    /\ UNCHANGED validator
    /\ MainIdle

\* printReport and the final checks print to stdout; main returns.
ReportStep ==
    /\ pc = "main" /\ cli.pc = "report"
    /\ cli' = [cli EXCEPT !.pc = "done", !.exit = 0]
    /\ UNCHANGED validator
    /\ MainIdle

MainNext ==
    \/ CheckArgsStep
    \/ ReadInputStep
    \/ ValidateStep
    \/ WriteOutputStep
    \/ ReportStep

MainSpec == MainInit /\ [][MainNext]_vars

(***************************************************************************)
(* Whole runs of validateAndFix on documents of one bucket: region India,  *)
(* diet Regular, and a bucket that is either a flat array of entries or an *)
(* object with the same entries under the key dinner.                      *)
(***************************************************************************)
MaxRecords == 3

\* A record with the id of RiceBowl as a string, and a title that names a
\* meal type.
SevenOats == Obj([id |-> Str("7"), title |-> Str("Breakfast Oats")])

\* A record with a meal type of its own that its title does not agree with.
SoupForBreakfast == Obj([title |-> Str("Tomato Soup"), mealType |-> Str("Breakfast")])

\* A record without a meal type, with an option that brings a meal type and
\* an option whose meal type is the empty string.
TypedOptions ==
    Obj([title |-> Str("Plate"),
         options |-> Arr(<<Obj([title |-> Str("Idli"), mealType |-> Str("Breakfast")]),
                           Obj([title |-> Str("Chai"), mealType |-> Str("")])>>)])

\* The entries a bucket is made of.
RunEntries ==
    {RiceBowl, SevenOats, OptionPlate, EmptyOptions, MilkSalmon, ChickenStock, FishCurry,
     SoupForBreakfast, TypedOptions, NumberedFood, HintedToast}

RECURSIVE SeqsUpTo(_, _)
\* The sequences of at most n elements of S.
SeqsUpTo(S, n) ==
    IF n = 0 THEN {<<>>}
    ELSE LET shorter == SeqsUpTo(S, n - 1)
         IN shorter \cup {Append(s, x) : s \in {t \in shorter : Len(t) = n - 1}, x \in S}

\* { India: { Regular: entries } } and { India: { Regular: { dinner: entries } } }
FlatDocument(entries) ==
    <<[k |-> "India", v |-> <<[k |-> "Regular", v |-> Arr(entries)]>>]>>
KeyedDocument(key, entries) ==
    <<[k |-> "India",
       v |-> <<[k |-> "Regular", v |-> Keyed(<<[k |-> key, v |-> Arr(entries)]>>)]>>]>>

RunDocuments ==
    {FlatDocument(entries) : entries \in SeqsUpTo(RunEntries, MaxRecords)}
      \cup {KeyedDocument("dinner", entries) : entries \in SeqsUpTo(RunEntries, MaxRecords)}

RunInit ==
    /\ corpus = "runs"
    /\ inputJson \in RunDocuments
    /\ inputData = inputJson
    /\ validator = NewValidator
    /\ cleanedData = EmptyCatalog
    /\ pc = "run"
    /\ regionKey = ""
    /\ dietKey = ""
    /\ flattened = <<>>
    /\ flatIndex = 0
    /\ normalizedMeal = Null
    /\ violations = <<>>
    /\ targetDiet = ""
    /\ clock = 1
    /\ second = Null
    /\ call = Null
    /\ cli = Null

\* const cleaned = validator.validateAndFix(inputData), from call to return,
\* or to the exception it raises: the catalog returned, and the document in
\* memory as the run leaves it.
RunStep ==
    /\ pc = "run"
    /\ \E r \in {ValidateAndFix(validator, inputJson, Timestamps[clock])} :
          /\ validator' = r.self
          /\ cleanedData' = IF Threw(r) THEN cleanedData ELSE r.ret
          /\ inputData' = InputAfter(validator, inputJson, Timestamps[clock], r)
          /\ pc' = IF Threw(r) THEN "thrown" ELSE "ran"
    /\ UNCHANGED <<corpus, inputJson, regionKey, dietKey, flattened, flatIndex,
                   normalizedMeal, violations, targetDiet, clock, second, call, cli>>

RunNext == RunStep

RunSpec == RunInit /\ [][RunNext]_vars

(***************************************************************************)
(* Properties                                                              *)
(***************************************************************************)
\* validateAndFix has returned: cleanedData is the emitted catalog.
Emitted == pc \in {"done", "rerun", "revalidated"}

\* The places of the records of a catalog: region, diet, meal type, index.
Places(catalog) ==
    UNION {UNION {UNION {{[r |-> r, d |-> d, m |-> m, i |-> i] :
                             i \in DOMAIN catalog[r][d][m]} :
                         m \in DOMAIN catalog[r][d]} :
                  d \in DOMAIN catalog[r]} :
           r \in (DOMAIN catalog) \ {"__meta__"}}

RecordAt(catalog, p) == catalog[p.r][p.d][p.m][p.i]

\* A record with this id is stored under diet d of region r.
InBucket(catalog, id, r, d) ==
    \E p \in Places(catalog) : p.r = r /\ p.d = d /\ RecordAt(catalog, p).o.id = id

\* The inner loop has taken a record of the current entry: flattened[flatIndex]
\* is the record as flattenOptions returned it.
Taken == flatIndex > 0

\* C1: in the emitted catalog no two records, at whatever places, have the
\* same id.
IdsUnique ==
    Emitted =>
        \A p, q \in Places(cleanedData) :
            p # q => RecordAt(cleanedData, p).o.id # RecordAt(cleanedData, q).o.id

\* An emitted catalog of three records or more after an original id was met
\* twice and an options array was flattened.
IdsUniqueWitness ==
    /\ Emitted
    /\ validator.stats.duplicateIds > 0
    /\ validator.stats.optionsFlattened > 0
    /\ Cardinality(Places(cleanedData)) >= 3

\* C2: every record of the emitted catalog lists, in its diets array, the
\* diet of the bucket it is stored under.
DietsHoldBucket ==
    Emitted =>
        \A p \in Places(cleanedData) :
            LET diets == RecordAt(cleanedData, p).o.diets
            IN diets.t = "array" /\ \E i \in DOMAIN diets.a : diets.a[i] = Str(p.d)

\* An emitted catalog that holds a record moved out of Vegan and a record
\* kept in the bucket it came under.
DietsHoldBucketWitness ==
    /\ Emitted
    /\ \E p \in Places(cleanedData) :
          /\ p.d # "Vegan"
          /\ \E i \in DOMAIN validator.stats.veganViolations :
                validator.stats.veganViolations[i].id = RecordAt(cleanedData, p).o.id
    /\ \E p \in Places(cleanedData) :
          /\ p.d = "Vegetarian"
          /\ \A i \in DOMAIN validator.stats.veganViolations :
                validator.stats.veganViolations[i].id # RecordAt(cleanedData, p).o.id

\* C3: a record taken under Vegan with offending terms is stored under
\* Vegetarian of its region when all the terms are dairy or egg terms, under
\* Regular when one is not, and in neither case under Vegan.
VeganCascade ==
    (Taken /\ dietKey = "Vegan" /\ violations # <<>>) =>
        LET id == flattened[flatIndex].o.id
            dairyEggOnly ==
                Range(violations) \subseteq {"egg", "eggs", "milk", "cheese", "yogurt",
                                             "butter", "ghee", "cream", "dairy"}
        IN /\ InBucket(cleanedData, id, regionKey,
                       IF dairyEggOnly THEN "Vegetarian" ELSE "Regular")
           /\ ~InBucket(cleanedData, id, regionKey, "Vegan")

\* Under Vegan, a record with milk and chicken has just been placed, after
\* a record with dairy terms only was moved to Vegetarian.
VeganCascadeWitness ==
    /\ Taken /\ dietKey = "Vegan"
    /\ "milk" \in Range(violations) /\ "chicken" \in Range(violations)
    /\ \E i \in DOMAIN validator.stats.veganViolations :
          validator.stats.veganViolations[i].movedTo = "Vegetarian"

\* The strings of a value that is a string, or an array of strings.
Texts(v) ==
    IF v.t = "string" THEN {v.s}
    ELSE IF v.t = "array"
         THEN {v.a[i].s : i \in {j \in DOMAIN v.a : v.a[j].t = "string"}}
    ELSE {}

\* The names of the foods of a record: the strings and the name fields.
FoodNames(rec) ==
    LET foods == Get(rec, "foods")
    IN IF foods.t # "array" THEN {}
       ELSE UNION {Texts(IF foods.a[i].t = "string" THEN foods.a[i]
                         ELSE Get(foods.a[i], "name")) : i \in DOMAIN foods.a}

\* Some keyword occurs, whatever the case, in the title, the ingredients, a
\* tag or a food name of the record.
Mentions(rec, keywords) ==
    \E text \in Texts(Get(rec, "title")) \cup Texts(Get(rec, "ingredients"))
                   \cup Texts(Get(rec, "tags")) \cup FoodNames(rec) :
        \E kw \in keywords : Includes(ToLowerCase(text), kw)

\* C4: a record taken under Vegetarian whose title, ingredients, tags or
\* food names mention a Vegetarian violation keyword is stored under Regular
\* of its region and not under Vegetarian.
VegetarianToRegular ==
    (/\ Taken /\ dietKey = "Vegetarian"
     /\ Mentions(flattened[flatIndex], Range(VEGETARIAN_VIOLATIONS))) =>
        /\ InBucket(cleanedData, flattened[flatIndex].o.id, regionKey, "Regular")
        /\ ~InBucket(cleanedData, flattened[flatIndex].o.id, regionKey, "Vegetarian")

\* Under Vegetarian, a record that mentions a keyword in upper case in its
\* ingredients has just been placed.
VegetarianToRegularWitness ==
    /\ Taken /\ dietKey = "Vegetarian"
    /\ Get(flattened[flatIndex], "ingredients") = Str("Milk CHICKEN stock")
    /\ Mentions(flattened[flatIndex], {"chicken"})
    /\ targetDiet = "Regular"

\* C5 (as stated): a second run on the same input returns the same
\* document, the __meta__ block included.
RerunIdentical == pc = "rerun" => second.ret = cleanedData

\* Extent of the difference between two runs of this validator: the second
\* document differs from the first in __meta__.fixed_on at most, and the
\* registry ends with the same ids reserved and reassigned.
RerunSameButFixedOn ==
    pc = "rerun" =>
        /\ second.ret = [cleanedData EXCEPT
                            !["__meta__"].fixed_on = second.ret["__meta__"].fixed_on]
        /\ second.self.usedIds = validator.usedIds
        /\ second.self.nextId = validator.nextId
        /\ second.self.idReassignments = validator.idReassignments

\* A second run at a later time, on an input for which ids were generated
\* and an original id was reassigned, has returned.
RerunSameButFixedOnWitness ==
    /\ pc = "rerun"
    /\ clock = 2
    /\ validator.nextId > InitialNextId + 1
    /\ validator.stats.duplicateIds > 0

\* C6 (as stated): validateAndFix on the emitted catalog returns the same
\* record lists under every region, diet and meal type.
Idempotent ==
    pc = "revalidated" =>
        \A r \in Range(CANONICAL_REGIONS), d \in Range(CANONICAL_DIETS),
           m \in Range(CANONICAL_MEAL_TYPES) :
            second.ret[r][d][m] = cleanedData[r][d][m]

\* The fields of the normalized parent an option record inherits when the
\* option does not set them: each with the input keys it is read from.
SharedFields ==
    [f \in {"serving_size", "foods", "ingredients", "tags", "diets", "region"} |-> {f}]
    @@ [i \in {NUTRIENT_FIELDS[j].field : j \in DOMAIN NUTRIENT_FIELDS} |->
          Range(NUTRIENT_FIELDS[CHOOSE j \in DOMAIN NUTRIENT_FIELDS :
                                    NUTRIENT_FIELDS[j].field = i].keys)]

\* The keys an option sets: its own, and those of the object it names as
\* its prototype.
OptionSets(opt) ==
    DOMAIN opt.o \cup (IF Get(opt, "__proto__").t = "object"
                         THEN DOMAIN Get(opt, "__proto__").o ELSE {})

\* The step reads an entry that has a truthy id and an options array of
\* strings and of objects without an id, and flattenOptions returns.
ReadsOptions ==
    /\ EntryCount(inputJson') = EntryCount(inputJson) + 1
    /\ pc' # "thrown"
    /\ CurrentMeal(inputJson').t = "object"
    /\ Truthy(Get(CurrentMeal(inputJson'), "id"))
    /\ Get(CurrentMeal(inputJson'), "options").t = "array"
    /\ \A i \in DOMAIN Get(CurrentMeal(inputJson'), "options").a :
          LET opt == Get(CurrentMeal(inputJson'), "options").a[i]
          IN opt.t = "string" \/ (opt.t = "object" /\ "id" \notin OptionSets(opt))

\* What C7 says of the records flattenOptions returns for the entry the
\* step reads, Title(base, s, i) being the title of the record of the
\* string option s at index i, base the fields of the entry without its
\* options: there are as many records as options; the record of the option
\* at index i has id X_i unless X_i was reserved before; the ids differ
\* pairwise; no record has a field options; a record inherits the fields of
\* the parent its option does not set.
OptionRecords(Title(_, _, _)) ==
    LET meal == CurrentMeal(inputJson')
        options == Get(meal, "options").a
        base == Delete(Delete(meal.o, "options"), "_mealTypeHint")
        parent == NormalizeMeal(NewValidator, Obj(base), regionKey, dietKey,
                                Get(meal, "_mealTypeHint"), 0).ret
        derived(i) == JsString(Get(meal, "id")) \o "_" \o ToString(i - 1)
    IN /\ Len(flattened') = Len(options)
       /\ \A i \in DOMAIN options :
             /\ derived(i) \notin validator.usedIds
                   => flattened'[i].o.id = Str(derived(i))
             /\ \A j \in DOMAIN options :
                   i # j => flattened'[i].o.id # flattened'[j].o.id
             /\ "options" \notin DOMAIN flattened'[i].o
             /\ \A f \in DOMAIN SharedFields :
                   (options[i].t = "string"
                      \/ SharedFields[f] \cap OptionSets(options[i]) = {})
                   => Get(flattened'[i], f) = Get(parent, f)
             /\ options[i].t = "string"
                   => flattened'[i].o.title = Str(Title(base, options[i].s, i - 1))

\* The title of the record of the string option s at index i: s without
\* the white space around it or, when that is empty or a placeholder, the
\* title generateTitle makes for the entry without a title (and without a
\* name, which is read only when the option is the empty string).
StringOptionTitle(base, s, i) ==
    IF Trim(s) # "" /\ ~IsPlaceholderTitle(Trim(s)) THEN Trim(s)
    ELSE GenerateTitle(NewValidator,
                       Obj(IF s = "" THEN Delete(base, "title")
                           ELSE Delete(Delete(base, "title"), "name")),
                       regionKey, dietKey, i).ret

\* C7 (as stated): an entry with a truthy id X and N options gives N
\* records; the i-th has id X_i unless X_i was reserved before; the ids
\* differ pairwise; no record has a field options; a record inherits the
\* fields of the parent its option does not set, and a string option is
\* its title.
OptionIsTitle ==
    [][ReadsOptions => OptionRecords(LAMBDA base, s, i : s)]_vars

\* C7: an entry with a truthy id X and N options gives N records; the i-th
\* has id X_i unless X_i was reserved before; the ids differ pairwise; no
\* record has a field options; a record inherits the fields of the parent
\* its option does not set; and the title of the record of a string option
\* is the option without the white space around it, or a generated title
\* when the option is blank or a placeholder.
OptionsFlattened ==
    [][ReadsOptions => OptionRecords(StringOptionTitle)]_vars

\* flattenOptions has just returned the four records of the entry with id
\* "9" and name Thali: the option " Dal " gave the title "Dal", the empty
\* option the name of the entry, the blank option and the placeholder the
\* title made of the foods.
OptionsFlattenedWitness ==
    /\ pc = "place" /\ flatIndex = 0
    /\ CurrentMeal(inputJson) = NamedOptions
    /\ Len(flattened) = 4
    /\ [i \in 1..4 |-> flattened[i].o.id] = <<Str("9_0"), Str("9_1"), Str("9_2"), Str("9_3")>>
    /\ [i \in 1..4 |-> flattened[i].o.title]
          = <<Str("Dal"), Str("Thali"), Str("Rice & Dal"), Str("Rice & Dal")>>

\* C8: the emitted catalog has the 9 canonical regions and __meta__; every
\* region has the 7 canonical diets; every diet has the 4 meal types, each
\* an array; a record stored at [R][D][M] has region R and mealType M.
CatalogShape ==
    Emitted =>
        /\ DOMAIN cleanedData =
              {"India", "USA", "Europe", "Middle_Eastern", "Latin_American", "Nordic",
               "East_Asian", "African", "Australian", "__meta__"}
        /\ \A r \in (DOMAIN cleanedData) \ {"__meta__"} :
              /\ DOMAIN cleanedData[r] =
                    {"Regular", "Keto", "Low_Carb", "Vegetarian", "Vegan",
                     "Mediterranean", "High_Protein"}
              /\ \A d \in DOMAIN cleanedData[r] :
                    /\ DOMAIN cleanedData[r][d] = {"breakfast", "lunch", "dinner", "snacks"}
                    /\ \A m \in DOMAIN cleanedData[r][d] :
                          DOMAIN cleanedData[r][d][m] = 1..Len(cleanedData[r][d][m])
        /\ \A p \in Places(cleanedData) :
              /\ RecordAt(cleanedData, p).o.region = Str(p.r)
              /\ RecordAt(cleanedData, p).o.mealType = Str(p.m)

\* An emitted catalog with a record under a region reached through a
\* synonym of its name.
CatalogShapeWitness ==
    /\ Emitted
    /\ \E p \in Places(cleanedData) : p.r = "Australian"

\* C9 (as stated): every record of the emitted catalog has a title that is
\* a non-empty string.
TitlesNonEmpty ==
    Emitted =>
        \A p \in Places(cleanedData) :
            LET title == RecordAt(cleanedData, p).o.title
            IN title.t = "string" /\ title.s # ""

\* The five nutrient fields of a record.
Nutrients == {"calories", "protein", "carbs", "fat", "fiber"}

\* v is a number other than NaN.
IsNumber(v) == v.t = "number" /\ ~IsNaN(v)

\* C10 (as stated): the nutrients of every record of the emitted catalog
\* are numbers that are not negative.
NutrientsNonNegative ==
    Emitted =>
        \A p \in Places(cleanedData), f \in Nutrients :
            LET v == Get(RecordAt(cleanedData, p), f)
            IN IsNumber(v) /\ v.n >= 0

\* The value normalizeMeal reads for nutrient f of a raw record.
RawNutrient(meal, f) ==
    FirstPresent(meal, NUTRIENT_FIELDS[CHOOSE j \in DOMAIN NUTRIENT_FIELDS :
                                          NUTRIENT_FIELDS[j].field = f].keys)

\* C10 (amended): the nutrients of every record of the emitted catalog are
\* numbers, never NaN; the record of an entry without options has 0 where
\* the entry has no value, null, "" or a string without a digit, and a
\* negative number only where the entry has a negative number or a string
\* with a minus sign.
NutrientsAreNumbers ==
    /\ Emitted =>
          \A p \in Places(cleanedData), f \in Nutrients :
              IsNumber(Get(RecordAt(cleanedData, p), f))
    /\ (/\ pc \in {"place", "meals"} /\ Len(flattened) = 1
        /\ Get(CurrentMeal(inputJson), "options").t # "array") =>
          \A f \in Nutrients :
              LET raw == RawNutrient(CurrentMeal(inputJson), f)
                  out == Get(flattened[1], f)
              IN /\ IsNumber(out)
                 /\ (\/ IsNullish(raw)
                     \/ raw.t = "string" /\ \A i \in 1..Len(Units(raw.s)) :
                                               Units(raw.s)[i] \notin Digits)
                       => out = Num(0)
                 /\ IsNumber(raw) => out = raw
                 /\ out.n < 0 =>
                       \/ IsNumber(raw) /\ raw.n < 0
                       \/ raw.t = "string" /\ Includes(raw.s, "-")

\* The record of an entry with fat -3 and fiber "-2.5g" has just been
\* returned by flattenOptions.
NutrientsAreNumbersWitness ==
    /\ pc = "place" /\ Len(flattened) = 1
    /\ Get(CurrentMeal(inputJson), "fat") = Num(-3)
    /\ Get(flattened[1], "fat") = Num(-3)
    /\ Get(flattened[1], "fiber") = Dec(-25, 1)

\* The k-th character of s that is a digit, a dot or a minus sign ("" when
\* s has fewer of them).
NumericCharAt(s, k) ==
    LET kept == SelectSeq(Units(s), LAMBDA c : c \in Digits \cup {".", "-"})
    IN IF Len(kept) < k THEN "" ELSE kept[k]

\* The digits, dots and minus signs of s begin with a number: digits, with
\* a minus sign or a dot or both before them.
HasNumber(s) ==
    LET c1 == NumericCharAt(s, 1)
        c2 == NumericCharAt(s, 2)
        c3 == NumericCharAt(s, 3)
    IN \/ c1 \in Digits
       \/ c1 \in {"-", "."} /\ c2 \in Digits
       \/ c1 = "-" /\ c2 = "." /\ c3 \in Digits

\* C11: parseNumeric returns a number that is not NaN; it returns 0 for
\* null, undefined, "" and NaN; for a string other than "" that holds no
\* number it returns 0 and appends one event with the record id, the field
\* name and the value; for any other value the list of events, and the rest
\* of the validator, are as before.
ParseNumericTotal ==
    (call # Null /\ call.op = "parseNumeric") =>
        LET value == call.args[1]
            before == call.self.stats.unparseableNutrients
            after == validator.stats.unparseableNutrients
        IN /\ IsNumber(call.ret)
           /\ (IsNullish(value) \/ value = Str("") \/ IsNaN(value)) => call.ret = Num(0)
           /\ IF value.t = "string" /\ value.s # "" /\ ~HasNumber(value.s)
              THEN /\ call.ret = Num(0)
                   /\ after = Append(before, [id |-> call.args[3], field |-> call.args[2],
                                              value |-> value])
              ELSE after = before
           /\ validator = [call.self EXCEPT !.stats.unparseableNutrients = after]

\* parseNumeric has been called with a string of digits and signs that is
\* no number, on a validator that held an event already.
ParseNumericTotalWitness ==
    /\ call # Null /\ call.op = "parseNumeric"
    /\ call.args[1] = Str("-.-5")
    /\ Len(call.self.stats.unparseableNutrients) = 1
    /\ Len(validator.stats.unparseableNutrients) = 2

\* "A", "A & B" or "A, B & C" for one, two or three names.
JoinedNames(names) ==
    IF Len(names) = 1 THEN names[1]
    ELSE IF Len(names) = 2 THEN names[1] \o " & " \o names[2]
    ELSE names[1] \o ", " \o names[2] \o " & " \o names[3]

\* The names of the entries of a foods value that have one, in order: the
\* entries that are strings, and the string names (or titles) of those that
\* are objects, with more than white space in them.
NamedFoods(foods) ==
    IF foods.t # "array" THEN <<>>
    ELSE LET named == SelectSeq([i \in DOMAIN foods.a |-> FoodTitleName(foods.a[i])],
                                LAMBDA s : s.t = "string" /\ Trim(s.s) # "")
         IN [i \in DOMAIN named |-> named[i].s]

\* C12 (as stated): when the title of the record is missing, empty or a
\* placeholder and foods has a named entry, generateTitle returns the first
\* names of foods, three at most, joined, and no placeholder; a title that is
\* neither empty nor a placeholder is returned as it is.  (Of the calls that
\* return.)
TitleFromFoods ==
    (call # Null /\ call.op = "generateTitle" /\ ~Threw(call)) =>
        LET title == Get(call.args[1], "title")
            names == NamedFoods(Get(call.args[1], "foods"))
            usable == title.t = "string" /\ title.s # "" /\ ~IsPlaceholderTitle(title.s)
        IN /\ (~usable /\ names # <<>>) =>
                 /\ call.ret = JoinedNames(Slice0(names, 3))
                 /\ ~IsPlaceholderTitle(call.ret)
           /\ usable => call.ret = title.s

\* C12 (amended): with the title of the record, or its name when it has no
\* title, taken without the white space around it: when that is empty or a
\* placeholder and one of the first three entries of foods has a name,
\* generateTitle returns the names of those three entries joined; when it
\* is neither empty nor a placeholder, generateTitle returns it, whatever
\* foods holds.  (Of the calls that return.)
TitleFromFirstFoods ==
    (call # Null /\ call.op = "generateTitle" /\ ~Threw(call)) =>
        LET meal == call.args[1]
            given == Trim(JsString(OrElse(Get(meal, "title"),
                                          OrElse(Get(meal, "name"), Str("")))))
            foods == Get(meal, "foods")
            names == NamedFoods(IF foods.t = "array" THEN Arr(Slice0(foods.a, 3))
                                ELSE foods)
            usable == given # "" /\ ~IsPlaceholderTitle(given)
        IN /\ (~usable /\ names # <<>>) => call.ret = JoinedNames(names)
           /\ usable => call.ret = given

\* generateTitle has returned "Rice, Beans & Dal" for a record titled
\* "Option 1" with four foods, after a call that returned a title as given.
TitleFromFirstFoodsWitness ==
    /\ call # Null /\ call.op = "generateTitle" /\ ~Threw(call)
    /\ Get(call.args[1], "title") = Str("Option 1")
    /\ Get(call.args[1], "foods").t = "array"
    /\ Len(Get(call.args[1], "foods").a) = 4
    /\ call.ret = "Rice, Beans & Dal"
    /\ call.count = 2
    /\ call.self.stats.titlesGenerated = 0
    /\ validator.stats.titlesGenerated = 1

\* A record is canonical under a region and a diet: a string id, a title
\* that is neither empty nor a placeholder, a canonical mealType, numbers in
\* the nutrient fields, the region, and a diets array that holds the diet.
IsCanonical(meal, region, diet) ==
    /\ meal.t = "object"
    /\ Get(meal, "id").t = "string"
    /\ Get(meal, "title").t = "string"
    /\ Get(meal, "title").s # ""
    /\ ~IsPlaceholderTitle(Get(meal, "title").s)
    /\ Get(meal, "mealType").t = "string"
    /\ Get(meal, "mealType").s \in {"breakfast", "lunch", "dinner", "snacks"}
    /\ \A i \in DOMAIN NUTRIENT_FIELDS :
          /\ Get(meal, NUTRIENT_FIELDS[i].field).t = "number"
          /\ Get(meal, NUTRIENT_FIELDS[i].field) # NaN
    /\ Get(meal, "region") = Str(region)
    /\ Get(meal, "diets").t = "array"
    /\ Str(diet) \in Range(Get(meal, "diets").a)

\* C13: normalizeMeal called with a canonical record, under the region and
\* the diet of the record, returns a record with the same fields and the
\* same values, but for the id: the id is kept when it was not reserved at
\* the call, and is an id not reserved at the call otherwise.
NormalizeCanonicalSame ==
    (call # Null /\ call.op = "normalizeMeal"
        /\ IsCanonical(call.args[1], "India", "Vegan")) =>
        /\ call.ret.t = "object"
        /\ DOMAIN call.ret.o = DOMAIN call.args[1].o
        /\ \A k \in DOMAIN call.args[1].o \ {"id"} : call.ret.o[k] = call.args[1].o[k]
        /\ call.ret.o.id.t = "string"
        /\ call.ret.o.id.s \notin call.self.usedIds
        /\ (call.args[1].o.id.s \notin call.self.usedIds) =>
               call.ret.o.id = call.args[1].o.id

\* A region key that is neither a canonical region nor a synonym of one, nor
\* the metadata key.
UnknownRegion(k) ==
    /\ k # "__meta__"
    /\ k \notin Range(CANONICAL_REGIONS)
    /\ k \notin DOMAIN REGION_MAPPING

\* C14: a run over a document that has regions of unknown key ends with
\* the catalog and the validator (reserved ids, counters, report maps) of
\* the run over the document without those regions: none of their records
\* appear, nothing is reserved or counted for them, and the regions after
\* them are processed.
UnknownRegionSkipped ==
    (Emitted /\ \E i \in DOMAIN inputJson : UnknownRegion(inputJson[i].k)) =>
        \E r \in {ValidateAndFix(NewValidator,
                                 SelectSeq(inputJson, LAMBDA e : ~UnknownRegion(e.k)),
                                 cleanedData["__meta__"].fixed_on)} :
            /\ validator = r.self
            /\ cleanedData = r.ret

\* A run has ended on a document whose region Atlantis holds a record and is
\* followed by region India, whose record is in the catalog; one record was
\* processed.
UnknownRegionSkippedWitness ==
    /\ Emitted
    /\ \E i, j \in DOMAIN inputJson :
          /\ i < j
          /\ inputJson[i].k = "Atlantis"
          /\ inputJson[i].v # <<>>
          /\ inputJson[j].k = "India"
    /\ Len(cleanedData["India"]["Vegan"]["lunch"]) = 1
    /\ validator.stats.totalProcessed = 1
    /\ Cardinality(validator.usedIds) = 1

\* A diet key that is neither a canonical diet nor a synonym of one.
UnknownDiet(k) == k \notin Range(CANONICAL_DIETS) /\ k \notin DOMAIN DIET_MAPPING

\* The diet entries of a document whose key is unknown.
UnknownDietKeys(doc) ==
    UNION {{doc[i].v[j].k : j \in {n \in DOMAIN doc[i].v : UnknownDiet(doc[i].v[n].k)}} :
           i \in {n \in DOMAIN doc : doc[n].v # <<>>}}

\* C15 (as stated): a record taken under a diet key that is neither
\* canonical nor a synonym is processed with diet Regular and stored in the
\* Regular bucket of its region, and in no other, with "Regular" in its
\* diets; the diet map of the validator, and of the report of the emitted
\* catalog, gives "Regular" for that key.
UnknownDietIsRegular ==
    /\ (Taken /\ UnknownDiet(Last(Last(inputJson).v).k)) =>
          /\ dietKey = "Regular"
          /\ \E p \in Places(cleanedData) :
                /\ p.r = regionKey /\ p.d = "Regular"
                /\ RecordAt(cleanedData, p).o.id = flattened[flatIndex].o.id
                /\ Str("Regular") \in Range(RecordAt(cleanedData, p).o.diets.a)
          /\ \A d \in Range(CANONICAL_DIETS) \ {"Regular"} :
                ~InBucket(cleanedData, flattened[flatIndex].o.id, regionKey, d)
          /\ Last(Last(inputJson).v).k \in DOMAIN validator.dietMappings
          /\ validator.dietMappings[Last(Last(inputJson).v).k] = "Regular"
    /\ Emitted =>
          \A k \in UnknownDietKeys(inputJson) :
              /\ k \in DOMAIN cleanedData["__meta__"].diet_mappings
              /\ cleanedData["__meta__"].diet_mappings[k] = "Regular"

\* C16: when validateAndFix has returned, the document it was given, with
\* its records and the arrays in them, is what was parsed from the input.
InputNotMutated == Emitted => inputData = inputJson

\* C17: a run over a document that has a __meta__ entry ends with the
\* catalog and the validator (reserved ids, report maps) of the run over the
\* document without that entry, whatever the entry holds; and the __meta__
\* block of the emitted catalog holds the maps and the count of the
\* validator of this run.
MetaIgnoredOnRead ==
    Emitted =>
        /\ (\E i \in DOMAIN inputJson : inputJson[i].k = "__meta__") =>
              \E r \in {ValidateAndFix(NewValidator,
                                       SelectSeq(inputJson, LAMBDA e : e.k # "__meta__"),
                                       cleanedData["__meta__"].fixed_on)} :
                  /\ validator = r.self
                  /\ cleanedData = r.ret
        /\ cleanedData["__meta__"].id_reassignments = validator.idReassignments
        /\ cleanedData["__meta__"].region_mappings = validator.regionMappings
        /\ cleanedData["__meta__"].diet_mappings = validator.dietMappings
        /\ cleanedData["__meta__"].summary.totalBefore = validator.stats.totalProcessed
        /\ cleanedData["__meta__"].changes = MetaChanges(validator)

\* A run has ended on a document whose __meta__ entry holds a record and is
\* followed by region Oceania, whose record is in the catalog under
\* Australian; the report counts one record and one mapped region.
MetaIgnoredOnReadWitness ==
    /\ Emitted
    /\ \E i, j \in DOMAIN inputJson :
          /\ i < j
          /\ inputJson[i].k = "__meta__"
          /\ inputJson[i].v # <<>>
          /\ inputJson[j].k = "Oceania"
    /\ Len(cleanedData["Australian"]["Vegan"]["lunch"]) = 1
    /\ cleanedData["__meta__"].summary = [totalBefore |-> 1, totalAfter |-> 1]
    /\ cleanedData["__meta__"].region_mappings = [Oceania |-> "Australian"]

\* C19: every keyword of VEGETARIAN_VIOLATIONS is a keyword of
\* VEGAN_VIOLATIONS: the keywords checkDietViolations reports for a record
\* under Vegetarian, it reports for that record under Vegan.
VeganKeywordsSuperset ==
    Taken =>
        \A kw \in Range(CheckDietViolations(flattened[flatIndex], "Vegetarian")) :
            /\ kw \in Range(VEGAN_VIOLATIONS)
            /\ kw \in Range(CheckDietViolations(flattened[flatIndex], "Vegan"))

\* C20: in the emitted catalog no record stored under Vegan mentions a
\* keyword of VEGAN_VIOLATIONS and no record stored under Vegetarian
\* mentions a keyword of VEGETARIAN_VIOLATIONS, in its title, ingredients,
\* tags or food names, whatever the case and however it came there.
BucketsFreeOfKeywords ==
    Emitted =>
        \A p \in Places(cleanedData) :
            /\ p.d = "Vegan" =>
                  ~Mentions(RecordAt(cleanedData, p), Range(VEGAN_VIOLATIONS))
            /\ p.d = "Vegetarian" =>
                  ~Mentions(RecordAt(cleanedData, p), Range(VEGETARIAN_VIOLATIONS))

\* main has exited in failure before the reconciliation: code 1, a message
\* on stderr, no catalog produced, no file changed.
FailedBeforeRun ==
    /\ cli.pc = "exited"
    /\ cli.exit = 1
    /\ cli.stderr # <<>>
    /\ cli.cleaned = Null
    /\ validator = NewValidator
    /\ cli.fs = cli.fs0

\* C18: with fewer than two arguments, or with an input file that is
\* missing or holds a text that is not JSON, main, once past the check, has
\* exited with code 1 and a message, having neither run validateAndFix nor
\* touched a file; a file is touched only when validateAndFix has returned
\* the catalog of the whole document, and it is the output file, which then
\* holds that catalog, or the bytes of its text written before the write
\* failed (none, one, 1024) when it failed after the file was opened; main
\* past a write that failed has exited with code 1, its last
\* message naming the output file, the files being as they were when the
\* file could not be opened; main ended by an exception of validateAndFix
\* has code 1, the error on stderr and the files as they were; and main
\* returns, with code 0, only with the catalog in the output file.
CliFailsAtomically ==
    cli # Null =>
        /\ (Len(cli.args) < 2 /\ cli.pc # "args") => FailedBeforeRun
        /\ (/\ Len(cli.args) >= 2
            /\ cli.pc \notin {"args", "read"}
            /\ \/ cli.fs0[cli.args[1]] = Missing
               \/ cli.fs0[cli.args[1]].t = "part"
               \/ /\ cli.fs0[cli.args[1]].t = "text"
                  /\ cli.fs0[cli.args[1]].s \in NotJson) => FailedBeforeRun
        /\ cli.fs # cli.fs0 =>
              /\ cli.cleaned # Null
              /\ cli.cleaned = ValidateAndFix(NewValidator,
                                              Document(ReadJson(cli.fs0[cli.args[1]]).value),
                                              cli.cleaned["__meta__"].fixed_on).ret
              /\ \/ /\ cli.write = "succeeds"
                    /\ cli.fs = [cli.fs0 EXCEPT ![cli.args[2]] = JsonFile(cli.cleaned)]
                 \/ /\ cli.write = "fails after open"
                    /\ cli.fs = [cli.fs0 EXCEPT
                                    ![cli.args[2]] = PartFile(cli.cleaned, cli.written)]
        /\ (cli.cleaned # Null /\ cli.write # "succeeds" /\ cli.pc # "write") =>
              /\ cli.pc = "exited"
              /\ cli.exit = 1
              /\ Last(cli.stderr) = "Could not write " \o cli.args[2]
              /\ cli.write = "fails at open" => cli.fs = cli.fs0
              /\ cli.write = "fails after open" =>
                    /\ cli.fs[cli.args[2]] = PartFile(cli.cleaned, cli.written)
                    /\ cli.written = 0 => cli.fs[cli.args[2]] = TextFile("")
                    /\ cli.written > 0 => ~ReadJson(cli.fs[cli.args[2]]).ok
        /\ cli.pc = "crashed" =>
              /\ cli.exit = 1
              /\ cli.stderr # <<>>
              /\ cli.cleaned = Null
              /\ cli.fs = cli.fs0
        /\ cli.pc = "done" =>
              /\ cli.exit = 0
              /\ cli.write = "succeeds"
              /\ cli.fs[cli.args[2]] = JsonFile(cli.cleaned)

\* main has exited with code 1 on an input file that holds "{oops", given
\* an input and an output path that could have been written.
CliFailsAtomicallyWitness ==
    /\ cli # Null
    /\ cli.pc = "exited"
    /\ cli.args = <<"in.json", "out.json">>
    /\ cli.fs0["in.json"] = TextFile("{oops")
    /\ cli.write = "succeeds"
    /\ cli.exit = 1
    /\ cli.stderr = <<"Could not read/parse in.json">>
    /\ cli.fs = cli.fs0

\* C21: the inner loop, taking a record under a diet other than Vegan and
\* Vegetarian (the check of the record returning), finds no violation, appends the record as flattenOptions
\* returned it, diets included, to the bucket of that diet and of its meal
\* type, changes no other bucket, and leaves the validator, with its two
\* violation lists, as it was.
OtherDietsKeepRecord ==
    [][(pc = "place" /\ dietKey \notin {"Vegan", "Vegetarian"} /\ pc' # "thrown") =>
          /\ violations' = <<>>
          /\ targetDiet' = dietKey
          /\ normalizedMeal' = flattened[flatIndex + 1]
          /\ cleanedData' =
                [cleanedData EXCEPT ![regionKey][dietKey]
                                     [flattened[flatIndex + 1].o.mealType.s] =
                    Append(@, flattened[flatIndex + 1])]
          /\ validator'.stats.veganViolations = validator.stats.veganViolations
          /\ validator'.stats.vegetarianViolations = validator.stats.vegetarianViolations
          /\ validator' = validator]_vars

\* Under Keto, reached by the synonym Ketogenic, a record that names milk
\* and salmon has just been stored in the Keto bucket with diets [Keto].
OtherDietsKeepRecordWitness ==
    /\ Taken /\ dietKey = "Keto"
    /\ Mentions(normalizedMeal, {"milk", "salmon"})
    /\ normalizedMeal.o.diets = Arr(<<Str("Keto")>>)
    /\ Last(cleanedData[regionKey]["Keto"]["lunch"]) = normalizedMeal
    /\ validator.stats.veganViolations = <<>>
    /\ validator.stats.vegetarianViolations = <<>>

\* The records normalizeMeal is called with for one entry of allMeals, in
\* order: the entry itself, or one record for each of its options.
OptionMeals(meal) ==
    LET options == Get(meal, "options")
    IN IF ~Truthy(options) \/ options.t # "array" THEN <<meal>>
       ELSE [i \in DOMAIN options.a |->
                OptionMeal(Delete(SpreadFields(meal), "options"),
                           options.a[i], i - 1)]

RECURSIVE Concat(_)
Concat(seqs) == IF seqs = <<>> THEN <<>> ELSE seqs[1] \o Concat(Tail(seqs))

\* The records normalizeMeal is called with over a document of one bucket, in
\* the order of the traversal.
InputRecords(doc) ==
    LET meals == SelectSeq(AllMeals(doc[1].v[1].v),
                           LAMBDA m : Truthy(m) /\ IsObjectLike(m))
    IN Concat([i \in DOMAIN meals |-> OptionMeals(WithoutHint(meals[i]))])

RECURSIVE Allocated(_, _)
\* The id getUniqueId gives to each of these records, called in order on
\* validator self: a sequence of [orig |-> the id carried, new |-> the id given].
Allocated(self, meals) ==
    IF meals = <<>> THEN <<>>
    ELSE Then(GetUniqueId(self, Get(meals[1], "id")),
              LAMBDA r : <<[orig |-> Get(meals[1], "id"), new |-> r.ret]>>
                            \o Allocated(r.self, Tail(meals)))

\* The ids of the records of a catalog.
CatalogIds(catalog) == {RecordAt(catalog, p).o.id.s : p \in Places(catalog)}

\* C22: at the end of a run, with the ids given to the records in the order
\* of the traversal being the ids of the emitted records: every record that
\* carried an id and was given another one has its pair in id_reassignments,
\* the id carried mapped to the id given; and every key of id_reassignments
\* is an id some record carried.
AuditTrailComplete ==
    pc = "ran" =>
        \E pairs \in {Allocated(NewValidator, InputRecords(inputJson))} :
            /\ {pairs[i].new : i \in DOMAIN pairs} = CatalogIds(cleanedData)
            /\ \A i \in DOMAIN pairs :
                  (~IsNullish(pairs[i].orig) /\ JsString(pairs[i].orig) # pairs[i].new) =>
                      /\ JsString(pairs[i].orig) \in
                            DOMAIN cleanedData["__meta__"].id_reassignments
                      /\ cleanedData["__meta__"].id_reassignments[JsString(pairs[i].orig)]
                            = pairs[i].new
            /\ \A k \in DOMAIN cleanedData["__meta__"].id_reassignments :
                  \E i \in DOMAIN pairs :
                      ~IsNullish(pairs[i].orig) /\ JsString(pairs[i].orig) = k

\* Record i of these pairs carries an id that no other record carries.
CarriedOnce(pairs, i) ==
    /\ ~IsNullish(pairs[i].orig)
    /\ \A j \in DOMAIN pairs \ {i} :
          IsNullish(pairs[j].orig) \/ JsString(pairs[j].orig) # JsString(pairs[i].orig)

\* C23 (as stated): at the end of a run, every record that carried an id no
\* other record carried, the option index appended, was given that id.
UniqueIdKept ==
    pc = "ran" =>
        \E pairs \in {Allocated(NewValidator, InputRecords(inputJson))} :
            /\ {pairs[i].new : i \in DOMAIN pairs} = CatalogIds(cleanedData)
            /\ \A i \in DOMAIN pairs :
                  CarriedOnce(pairs, i) => pairs[i].new = JsString(pairs[i].orig)

\* C23 (amended): at the end of a run, every record that carried an id no
\* other record carried, and that the registry had given to no record
\* earlier in the traversal, was given that id.
UniqueIdKeptUnlessGenerated ==
    pc = "ran" =>
        \E pairs \in {Allocated(NewValidator, InputRecords(inputJson))} :
            /\ {pairs[i].new : i \in DOMAIN pairs} = CatalogIds(cleanedData)
            /\ \A i \in DOMAIN pairs :
                  (/\ CarriedOnce(pairs, i)
                   /\ \A j \in 1..(i - 1) : pairs[j].new # JsString(pairs[i].orig)) =>
                      pairs[i].new = JsString(pairs[i].orig)

\* A run has ended on two records without id followed by a record of id 8:
\* the catalog holds the ids 100000, 100001 and 8.
UniqueIdKeptUnlessGeneratedWitness ==
    /\ pc = "ran"
    /\ inputJson = FlatDocument(<<MilkSalmon, MilkSalmon, FishCurry>>)
    /\ CatalogIds(cleanedData) = {"100000", "100001", "8"}
    /\ validator.nextId = 100002

\* The explicit meal type of the call recorded, lower-cased and trimmed.
ExplicitMealType == Trim(ToLowerCase(JsString(call.args[1])))

\* The recorded call is normalizeMealType on an explicit (truthy) meal type,
\* and it returned.
ExplicitMealTypeCall ==
    /\ call # Null
    /\ call.op = "normalizeMealType"
    /\ ~Threw(call)
    /\ Truthy(call.args[1])

\* C24 (as stated): for an explicit meal type, normalizeMealType lower-cases
\* and trims it, returns it when it is exactly one of the four canonical
\* names, maps "snack" to snacks and "supper" to dinner, and returns lunch for
\* every other explicit value, also one that only contains a canonical name;
\* the result is always canonical.
ExplicitMealTypeExact ==
    ExplicitMealTypeCall =>
        /\ call.ret.s \in {"breakfast", "lunch", "dinner", "snacks"}
        /\ call.ret.s = (IF ExplicitMealType \in {"breakfast", "lunch", "dinner", "snacks"}
                           THEN ExplicitMealType
                         ELSE IF ExplicitMealType = "snack" THEN "snacks"
                         ELSE IF ExplicitMealType = "supper" THEN "dinner"
                         ELSE "lunch")

\* C24 (amended): as above, except that an explicit value that is neither
\* canonical nor "snack" nor "supper" gives the first of breakfast, lunch,
\* dinner, snacks whose name it contains, and lunch only when it contains
\* none; the result is always canonical.
ExplicitMealTypeBySubstring ==
    ExplicitMealTypeCall =>
        /\ call.ret.s \in {"breakfast", "lunch", "dinner", "snacks"}
        /\ call.ret.s = (IF ExplicitMealType \in {"breakfast", "lunch", "dinner", "snacks"}
                           THEN ExplicitMealType
                         ELSE IF ExplicitMealType = "snack" THEN "snacks"
                         ELSE IF ExplicitMealType = "supper" THEN "dinner"
                         ELSE IF Includes(ExplicitMealType, "breakfast") THEN "breakfast"
                         ELSE IF Includes(ExplicitMealType, "lunch") THEN "lunch"
                         ELSE IF Includes(ExplicitMealType, "dinner") THEN "dinner"
                         ELSE IF Includes(ExplicitMealType, "snacks") THEN "snacks"
                         ELSE "lunch")

\* "late dinner" was normalized, to dinner.
ExplicitMealTypeBySubstringWitness ==
    /\ ExplicitMealTypeCall
    /\ call.args[1] = Str("late dinner")
    /\ call.ret = Str("dinner")

\* The bucket entry read last, as it stands in the document.
LastEntryRead(doc) ==
    LET bucket == CurrentBucket(doc)
    IN IF bucket.t = "array" THEN Last(bucket.a) ELSE Last(Last(bucket.entries).v.a)

\* A bucket entry that is not an object: null, a string, a number, a boolean.
NonObject(v) == v.t \in {"null", "string", "number", "boolean"}

\* C25: reading a bucket entry that is not an object (null, a string, a
\* number, a boolean), in a flat bucket or under a meal-type key, drops it
\* silently: flattenOptions yields no record for it, the validator is left as
\* it was (no id reserved, totalProcessed not counted up, nothing reported),
\* the catalog is left as it was, and the loop goes on to the next entry.
NonObjectEntryDropped ==
    [][(/\ pc = "meals"
        /\ EntryCount(inputJson') = EntryCount(inputJson) + 1
        /\ NonObject(LastEntryRead(inputJson')))
          => /\ flattened' = <<>>
             /\ validator' = validator
             /\ cleanedData' = cleanedData
             /\ pc' = "meals"]_vars

\* The number of output records one object record of a bucket stands for:
\* the length of its options array, or one when it has no options array.
RecordsExpected(meal) ==
    IF Get(meal, "options").t = "array" THEN Len(Get(meal, "options").a) ELSE 1

\* The step reads an object record of the bucket the traversal is in.
ReadsObjectRecord ==
    /\ pc = "meals"
    /\ Len(inputJson') = Len(inputJson)
    /\ Len(Last(inputJson').v) = Len(Last(inputJson).v)
    /\ EntryCount(inputJson') = EntryCount(inputJson) + 1
    /\ LastEntryRead(inputJson').t = "object"

\* One leaf of the catalog has the record placed appended; all else is as
\* it was.
AppendedToOneLeaf ==
    /\ Cardinality(Places(cleanedData')) = Cardinality(Places(cleanedData)) + 1
    /\ \E r \in Range(CANONICAL_REGIONS), d \in Range(CANONICAL_DIETS),
          m \in Range(CANONICAL_MEAL_TYPES) :
          cleanedData' = [cleanedData EXCEPT ![r][d][m] = Append(@, normalizedMeal')]

\* Reading an object record gives as many records as it stands for, each
\* processed once.  The body of the loop over them takes the next one, by
\* its id, appends it to one leaf and goes on to the one after it, or leaves
\* the loop after the last.  No other step of the traversal changes a leaf.
PlacedOnceInOrder ==
    /\ ReadsObjectRecord =>
          /\ Len(flattened') = RecordsExpected(LastEntryRead(inputJson'))
          /\ validator'.stats.totalProcessed =
                validator.stats.totalProcessed + Len(flattened')
          /\ flatIndex' = 0
          /\ pc' = IF flattened' = <<>> THEN "meals" ELSE "place"
    /\ pc = "place" =>
          /\ flatIndex < Len(flattened)
          /\ flatIndex' = flatIndex + 1
          /\ flattened' = flattened
          /\ normalizedMeal'.o.id = flattened[flatIndex + 1].o.id
          /\ AppendedToOneLeaf
          /\ pc' = IF flatIndex' < Len(flattened) THEN "place" ELSE "meals"
    /\ (Reading /\ pc' # "done") => cleanedData' = cleanedData

\* C26: each object record under a canonical region yields one output record
\* when it has no options array and as many as its options array is long
\* when it has one (none for an empty array); each of these records is placed
\* in one leaf, once, in the order of the traversal, and is processed once,
\* so that the emitted catalog holds as many records as were processed; and
\* the pass comes to its end.
RecordsPlacedOnce ==
    /\ [][PlacedOnceInOrder]_vars
    /\ [](Emitted => Cardinality(Places(cleanedData)) = validator.stats.totalProcessed)
    /\ <>Emitted

\* A pass has come to its end over a bucket of a record with an empty
\* options array and a record without options: one record processed and
\* placed.
RecordsPlacedOnceWitness ==
    /\ Emitted
    /\ inputJson = FlatDocument(<<EmptyOptions, RiceBowl>>)
    /\ Cardinality(Places(cleanedData)) = 1
    /\ validator.stats.totalProcessed = 1
    /\ validator.stats.optionsFlattened = 1

\* The words of a text: its maximal runs of characters that are not white
\* space, in order.
WordsOf(text) == SelectSeq(SplitWs(text), LAMBDA w : w # "")

\* The recorded call is generateTitle on a record without a usable title and
\* without named foods, whose ingredients are a text that is not empty, and
\* it returned.
TitleFromIngredientsCall ==
    /\ call # Null
    /\ call.op = "generateTitle"
    /\ ~Threw(call)
    /\ LET meal == call.args[1]
           given == Trim(JsString(OrElse(Get(meal, "title"),
                                         OrElse(Get(meal, "name"), Str("")))))
       IN /\ given = "" \/ IsPlaceholderTitle(given)
          /\ NamedFoods(Get(meal, "foods")) = <<>>
          /\ Get(meal, "ingredients").t = "string"
          /\ Get(meal, "ingredients").s # ""

\* C27 (as stated): for a record without a usable title and without named
\* foods, whose ingredients text is not empty, generateTitle returns the
\* first six words of the ingredients (all of them when they are fewer)
\* joined by single spaces, and nothing after them.
TitleIsFirstWords ==
    TitleFromIngredientsCall =>
        call.ret = Join(Slice0(WordsOf(Get(call.args[1], "ingredients").s), 6), " ")

\* C27 (amended): for such a record generateTitle returns the first six words
\* of the ingredients (all of them when they are fewer) joined by single
\* spaces, followed by "..." when the ingredients hold six words or more, and
\* by nothing when they hold fewer.
TitleIsFirstWordsEllipsis ==
    TitleFromIngredientsCall =>
        LET words == WordsOf(Get(call.args[1], "ingredients").s)
        IN call.ret = Join(Slice0(words, 6), " ")
                         \o (IF Len(words) >= 6 THEN "..." ELSE "")

\* generateTitle has returned the six words of an ingredients text of six
\* words with "..." after them, for a record titled "Option 3".
TitleIsFirstWordsEllipsisWitness ==
    /\ TitleFromIngredientsCall
    /\ Get(call.args[1], "ingredients") = Str("rice lentils ghee salt water cumin")
    /\ call.ret = "rice lentils ghee salt water cumin..."
    /\ validator.stats.titlesGenerated = call.self.stats.titlesGenerated + 1

\* C28: a record taken under diet S and found with violations is stored
\* under a target diet T other than S; its diets array is T followed by the
\* entries, other than T and in their order, of the diets array it had when
\* flattenOptions returned it, so that T is at index 0 and nowhere else and
\* S is still there; and the record is in the T bucket of its region and not
\* in the S bucket.
ReclassifiedDietsLeadWithTarget ==
    (Taken /\ violations # <<>>) =>
        LET before == flattened[flatIndex].o.diets.a
            after == normalizedMeal.o.diets.a
        IN /\ targetDiet # dietKey
           /\ after[1] = Str(targetDiet)
           /\ Tail(after) = SelectSeq(before, LAMBDA d : d # Str(targetDiet))
           /\ \A i \in DOMAIN after : after[i] = Str(targetDiet) <=> i = 1
           /\ \E i \in DOMAIN after : after[i] = Str(dietKey)
           /\ InBucket(cleanedData, normalizedMeal.o.id, regionKey, targetDiet)
           /\ ~InBucket(cleanedData, normalizedMeal.o.id, regionKey, dietKey)

\* A record that came under Vegan with diets [Regular], so with diets
\* [Vegan, Regular] after normalization, has been moved to Regular with diets
\* [Regular, Vegan].
ReclassifiedDietsLeadWithTargetWitness ==
    /\ Taken /\ violations # <<>>
    /\ dietKey = "Vegan" /\ targetDiet = "Regular"
    /\ flattened[flatIndex].o.diets = Arr(<<Str("Vegan"), Str("Regular")>>)
    /\ normalizedMeal.o.diets = Arr(<<Str("Regular"), Str("Vegan")>>)
    /\ InBucket(cleanedData, normalizedMeal.o.id, regionKey, "Regular")

\* The document is { India: { Regular: { key: entries } } }.
IsKeyedRun == inputJson[1].v[1].v.t = "object"

BucketKey == inputJson[1].v[1].v.entries[1].k

\* The flat array of the same records in the same order, in which each
\* record that lacks a meal type of its own has the key as its meal type.
FlatEquivalent ==
    LET entries == inputJson[1].v[1].v.entries[1].v.a
    IN FlatDocument([i \in DOMAIN entries |->
                        IF Truthy(Get(entries[i], "mealType")) THEN entries[i]
                        ELSE Obj(Put(entries[i].o, "mealType", Str(BucketKey)))])

\* The run over the flat array gives the catalog this run has given.
SameAsFlat ==
    \E r \in {ValidateAndFix(NewValidator, FlatEquivalent,
                             cleanedData["__meta__"].fixed_on)} : r.ret = cleanedData

\* The places of a catalog that hold a record of this id.
PlacesOf(catalog, id) == {p \in Places(catalog) : RecordAt(catalog, p).o.id.s = id}

\* Each record normalizeMeal was called with is stored with the meal type
\* normalizeMealType gives for its own meal type when it has one, and with
\* the key of its bucket when it has none, whatever its title says.
OwnTypeBeforeKey ==
    \E meals \in {InputRecords(inputJson)} :
        \E pairs \in {Allocated(NewValidator, meals)} :
            \A i \in DOMAIN meals :
                \A p \in PlacesOf(cleanedData, pairs[i].new) :
                    p.m = IF Truthy(Get(meals[i], "mealType"))
                          THEN NormalizeMealType(Get(meals[i], "mealType"), Str(""),
                                                 Arr(<<>>)).s
                          ELSE BucketKey

\* No option of a record of the bucket has a mealType field that is empty.
NoBlankOptionType ==
    LET entries == inputJson[1].v[1].v.entries[1].v.a
    IN \A i \in DOMAIN entries :
          LET options == Get(entries[i], "options")
          IN options.t = "array" =>
                \A j \in DOMAIN options.a :
                    (options.a[j].t = "object" /\ "mealType" \in DOMAIN options.a[j].o)
                        => Truthy(options.a[j].o["mealType"])

\* C29 (as stated): a run over a bucket given as an object keyed by a
\* canonical meal type gives the catalog of the run over the flat array of
\* the same records in which each record without a meal type of its own has
\* the key as meal type; a meal type of its own goes before the key; and a
\* record without one is stored under the key whatever its title says.
ShapesEquivalent ==
    (pc = "ran" /\ IsKeyedRun) => (SameAsFlat /\ OwnTypeBeforeKey)

\* C29 (amended): the same, the equivalence with the flat array being
\* claimed only for buckets in which no option of a record has an empty
\* mealType field.
ShapesEquivalentTypedOptions ==
    (pc = "ran" /\ IsKeyedRun) =>
        /\ NoBlankOptionType => SameAsFlat
        /\ OwnTypeBeforeKey

\* A run has returned over { dinner: [...] } holding a record titled
\* "Breakfast Oats" without meal type, a record with meal type Breakfast and
\* a record with two options: three records are stored under dinner, one
\* under breakfast.
ShapesEquivalentTypedOptionsWitness ==
    /\ pc = "ran"
    /\ inputJson = KeyedDocument("dinner", <<SevenOats, SoupForBreakfast, OptionPlate>>)
    /\ Len(cleanedData["India"]["Regular"]["dinner"]) = 3
    /\ Len(cleanedData["India"]["Regular"]["breakfast"]) = 1
    /\ cleanedData["India"]["Regular"]["dinner"][1].o.title = Str("Breakfast Oats")
    /\ cleanedData["India"]["Regular"]["breakfast"][1].o.title = Str("Tomato Soup")

\* C30: the totalAfter of the summary of the emitted catalog is the number
\* of records in all its leaves, also when records were moved out of Vegan
\* or Vegetarian during the run.
TotalAfterCountsLeaves ==
    Emitted =>
        cleanedData["__meta__"].summary.totalAfter = Cardinality(Places(cleanedData))

\* A run has ended after moving one record out of Vegan and one out of
\* Vegetarian: the summary counts the two records, both under Regular.
TotalAfterCountsLeavesWitness ==
    /\ Emitted
    /\ Len(validator.stats.veganViolations) = 1
    /\ Len(validator.stats.vegetarianViolations) = 1
    /\ cleanedData["__meta__"].summary.totalAfter = 2
    /\ \A p \in Places(cleanedData) : p.d = "Regular"
====
